---- MODULE Spec2Model ----
(***************************************************************************)
(* State-machine model of the asteroids simulation core (src/src/main.ts): *)
(* the per-tick `update` function with its Menu, level-transition,         *)
(* single-player and Versus branches.                                      *)
(*                                                                         *)
(* Numbers.  The program computes in floating point; the model computes    *)
(* in integers.  Lengths are counted in position units of 1/U world unit   *)
(* (U = 200), times in milliseconds.  An asteroid's velocity is in         *)
(* position units per ms, a ship's velocity in position units per tick     *)
(* (as in the code, which adds ship.dx without dt), and a bullet stores    *)
(* dx*dt, its displacement per tick.  Headings are multiples of 90         *)
(* degrees, so that cos and sin are exact.                                 *)
(*                                                                         *)
(* update takes the tick length dt as a parameter.  The model fixes dt in  *)
(* Init (from Dts) and keeps it for the whole behaviour.  Random draws     *)
(* (Math.random) and controller inputs are choices from small sets.        *)
(* Cosmetic fields (asteroid angle, dangle, variant, spark position and    *)
(* orientation) are left out: no branch reads them.                        *)
(***************************************************************************)
EXTENDS Integers, Sequences, FiniteSets, TLC

VARIABLES mode, level, levelTransitionMs, menuAnimationMs, screenShakeAmount,
          explosions, ship, asteroids, players, baseAsteroidSizes, dt, ticks,
          inputsUsed, games, ev, probe, loop

\* the game: state.ts's state object, the tick length and the history
gameVars == <<mode, level, levelTransitionMs, menuAnimationMs, screenShakeAmount,
              explosions, ship, asteroids, players, baseAsteroidSizes, dt, ticks,
              inputsUsed, games, ev>>

\* probe holds a call of a util.ts function made on its own: arguments and results
\* loop holds gameLoop's variables and the pads' edge-triggered state
vars == <<gameVars, probe, loop>>

----------------------------------------------------------------------------
(* Units and program constants *)

U == 2 * 100

\* computeViewport: the smaller side of the viewport is 100 world units
WorldW == 126 * U
WorldH == 100 * U

SizeBig == 7 * U
SizeMed == 4 * U
SizeSmall == 2 * U
shipSize == 2 * U

ShipLarge == 3 * U
ShipMed == 2 * U
ShipSmall == 1 * U

maxActiveBullets == 10
explosionDurationMsAsteroid == 400
explosionDurationMsShip == 600
explosionTtlMs == 0
bulletRadiusWorld == U \div 4
bulletTtlMs == 750
fireCooldownReset == 278 \div 2
startCooldownMs == 200
graceMs == 2000
respawnDelayMs == 2000
respawnRetryMs == 50
levelTransitionDurationMs == 2000
startLives == 5

----------------------------------------------------------------------------
(* Bounds of the exploration *)

\* tick lengths explored (ms)
Dts == {300, 2000}
\* gameplay ticks (Playing, blackout, Versus) explored
MaxTicksFine == 8
\* single-player ticks explored with the long tick: five lives take that long
\* to lose
MaxTicksCoarse == 34
\* gameplay ticks in which a controller gives an input (stick or fire)
MaxInputs == 2
\* consecutive ticks the program idles in the menu
MaxMenuTicks == 1
\* games and rounds started from the menu
MaxGames == 2

MaxTicks == IF dt < 1000 THEN MaxTicksFine ELSE MaxTicksCoarse

MaxTicksVersus == MaxTicksFine

----------------------------------------------------------------------------
(* Arithmetic helpers *)

Sq(x) == x * x

Max(a, b) == IF a >= b THEN a ELSE b

Min(a, b) == IF a <= b THEN a ELSE b

MinOf(S) == CHOOSE x \in S : \A y \in S : x <= y

\* JavaScript's % : the result takes the sign of the dividend
JsRem(a, b) == IF a >= 0 THEN a % b ELSE -((-a) % b)

Cos(a) == CASE a = 0 -> 1 [] a = 180 -> -1 [] OTHER -> 0

Sin(a) == CASE a = 90 -> 1 [] a = -90 -> -1 [] OTHER -> 0

\* seeded fault for C19: the remainder is taken once, so it keeps the sign of value
wrapWithMarginOnce(value, max, margin) ==
  LET total == max + margin * 2
  IN JsRem(value + margin, total) - margin

wrapWithMargin(value, max, margin) ==
  LET total == max + margin * 2
  IN JsRem(JsRem(value + margin, total) + total, total) - margin

\* seeded fault for C20: a negative remainder is left as it is
wrapDeltaNoFix(delta, span) == JsRem(delta + span \div 2, span) - span \div 2

wrapDelta(delta, span) ==
  LET remainder == JsRem(delta + span \div 2, span)
  IN (IF remainder < 0 THEN remainder + span ELSE remainder) - span \div 2

MapSeq(s, F(_)) == [i \in 1..Len(s) |-> F(s[i])]

RECURSIVE KeepIdx(_, _, _)
\* the subsequence of s at the indices in keep, in order (Array.filter by index)
KeepIdx(s, keep, i) ==
  IF i > Len(s) THEN <<>>
  ELSE (IF i \in keep THEN <<s[i]>> ELSE <<>>) \o KeepIdx(s, keep, i + 1)

RECURSIVE SumSeq(_)
SumSeq(s) == IF s = <<>> THEN 0 ELSE Head(s) + SumSeq(Tail(s))

----------------------------------------------------------------------------
(* Sparks and camera *)

\* randInRange(0.9, 1.1) of makeSpark, in percent
SparkLifePcts == {100}

\* one entry per burst: the remaining life of its sparks
spawnSparkBurst(durationMs, pct) == <<(durationMs * pct) \div 100>>

\* seeded fault for C12: the sparks are neither aged nor retired
tickExplosionsKeepAll(expl, d) == expl

\* seeded fault for C18: the sparks are aged but the expired ones are kept
tickExplosionsKeepsExpired(expl, d) == [i \in 1..Len(expl) |-> expl[i] - d]

tickExplosions(expl, d) ==
  SelectSeq(MapSeq(expl, LAMBDA l : l - d), LAMBDA l : l > 0)

\* exp(-0.01 * d) in ten-thousandths
ExpDecay(d) == CASE d = 60 -> 5488 [] d = 300 -> 498 [] OTHER -> 0

\* screenShakeAmount is kept in millionths
easeCameraToZero(shake, d) ==
  LET s == (shake \div 10000) * ExpDecay(d) + ((shake % 10000) * ExpDecay(d)) \div 10000
  IN IF s < 1000 THEN 0 ELSE s

shakeForAsteroid(size) == 1000000 \div (20 - (size \div U) * 2)

----------------------------------------------------------------------------
(* Asteroids *)

Asteroid(x, y, dx, dy, size) ==
  [x |-> x, y |-> y, dx |-> dx, dy |-> dy, size |-> size, dying |-> FALSE, tud |-> 0]

moveAsteroid(a, d) ==
  [a EXCEPT !.x = wrapWithMargin(a.x + a.dx * d, WorldW, a.size),
            !.y = wrapWithMargin(a.y + a.dy * d, WorldH, a.size)]

moveAsteroids(asts, d) == MapSeq(asts, LAMBDA a : moveAsteroid(a, d))

centerX == WorldW \div 2
centerY == WorldH \div 2

\* the (x, y, dx, dy) that Math.random / randomBetween may deliver to
\* randomAsteroidOutsideCenter
SeedDraws ==
  { [x |-> centerX, y |-> 17 * U, dx |-> 0, dy |-> 0],
    [x |-> (WorldW * 3) \div 4, y |-> centerY, dx |-> 0, dy |-> 0],
    [x |-> centerX - 40 * U, y |-> centerY, dx |-> 2, dy |-> 0],
    [x |-> centerX - 25 * U, y |-> centerY, dx |-> 1, dy |-> 0],
    [x |-> centerX - 24 * U, y |-> centerY, dx |-> 2, dy |-> 0],
    [x |-> centerX, y |-> centerY, dx |-> 0, dy |-> 0] }

\* the (dir, dx, dy) the fallback placement may draw
FallbackDraws == { [dir |-> 0, dx |-> 0, dy |-> 0] }

\* seeded fault for C32: no draw is ever rejected
InExclusionNever(d, size, exclusionRadius) == FALSE

InExclusion(d, size, exclusionRadius) ==
  Sq(d.x - centerX) + Sq(d.y - centerY) <= Sq(exclusionRadius + size)

\* the asteroids one call may return: a draw that passes the test, or, when
\* all maxTries draws can fail it, the fallback placement
randomAsteroidOutsideCenter(size, exclusionRadius) ==
  { Asteroid(d.x, d.y, d.dx, d.dy, size) :
      d \in {e \in SeedDraws : ~InExclusion(e, size, exclusionRadius)} }
  \cup
  { Asteroid(wrapWithMargin(centerX + Cos(f.dir) * (exclusionRadius + size * 2), WorldW, size),
             wrapWithMargin(centerY + Sin(f.dir) * (exclusionRadius + size * 2), WorldH, size),
             f.dx, f.dy, size) :
      f \in {g \in FallbackDraws :
               \E e \in SeedDraws : InExclusion(e, size, exclusionRadius)} }

RECURSIVE seedAll(_, _)
\* the fields that one randomAsteroidOutsideCenter call per size may produce
seedAll(sizes, exclusion) ==
  IF sizes = <<>> THEN {<<>>}
  ELSE { <<a>> \o rest : a \in randomAsteroidOutsideCenter(Head(sizes), exclusion),
                         rest \in seedAll(Tail(sizes), exclusion) }

\* seeded fault for C31: one extra Big asteroid per level instead of two
seedLevelOneExtra(lvl, base, current) ==
  LET baseSizes == IF Len(base) > 0 THEN base ELSE MapSeq(current, LAMBDA a : a.size)
      extraBigCount == Max(0, lvl - 1)
  IN seedAll(baseSizes \o [i \in 1..extraBigCount |-> SizeBig], shipSize * 8)

\* the asteroid fields seedLevel may produce
seedLevel(lvl, base, current) ==
  LET baseSizes == IF Len(base) > 0 THEN base ELSE MapSeq(current, LAMBDA a : a.size)
      extraBigCount == Max(0, (lvl - 1) * 2)
  IN seedAll(baseSizes \o [i \in 1..extraBigCount |-> SizeBig], shipSize * 8)

----------------------------------------------------------------------------
(* Observation of the last tick (history, not program state) *)

\* gameLoop before its first frame (lines 1179-1180), no pad connected
LoopIdle ==
  [pc |-> "idle", timeToProcessPhysics |-> 0, count |-> 0, anyEdge |-> FALSE,
   singleEdge |-> FALSE, elapsed |-> 0, before |-> 0, calls |-> 0, dtArg |-> 0,
   sawAt |-> 0, presses |-> 0, starts |-> 0, frames |-> 0]

\* no util.ts call under observation
ProbeIdle == [fn |-> "none", outs |-> <<>>]

EvNone ==
  [kind |-> "init", count |-> 0, anyEdge |-> FALSE, singleEdge |-> FALSE,
   hits |-> <<>>, shipHits |-> <<>>, removed |-> {}, kids |-> 0,
   relocated |-> FALSE, died |-> FALSE, retried |-> FALSE,
   asts |-> <<>>, bs |-> <<>>, fieldLen |-> 0, bursts |-> 0, crashes |-> 0, rams |-> 0,
   splits |-> <<>>, pad |-> <<>>, afterFire |-> <<>>, atCollision |-> <<>>,
   pre |-> [mode |-> "Menu", lt |-> 0, lives |-> startLives, score |-> 0,
            scores |-> <<>>, frags |-> <<>>, level |-> 1, explosions |-> <<>>,
            shake |-> 0, ship |-> <<>>, players |-> <<>>, base |-> <<>>]]

\* what the tick about to run starts from
Pre ==
  [mode |-> mode, lt |-> levelTransitionMs, lives |-> ship.lives, score |-> ship.score,
   scores |-> [i \in 1..Len(players) |-> players[i].score],
   frags |-> [i \in 1..Len(players) |-> Len(players[i].ships)],
   level |-> level, explosions |-> explosions, shake |-> screenShakeAmount,
   ship |-> ship, players |-> players, base |-> baseAsteroidSizes]

----------------------------------------------------------------------------
(* Initial state: the module-level `state` object *)

Templates == { <<SizeBig>>, <<SizeSmall>> }

InitShip ==
  [x |-> 50 * U, y |-> 50 * U, dx |-> 0, dy |-> 0, angle |-> 0,
   isBoosting |-> FALSE, fireCooldownMs |-> 0, invincibleMs |-> 0, respawnMs |-> 0,
   lives |-> startLives, score |-> 0, bullets |-> <<>>]

Init ==
  /\ mode = "Menu"
  /\ level = 1
  /\ levelTransitionMs = 0
  /\ menuAnimationMs = 0
  /\ screenShakeAmount = 0
  /\ explosions = <<>>
  /\ ship = InitShip
  /\ baseAsteroidSizes \in Templates
  /\ asteroids = MapSeq(baseAsteroidSizes, LAMBDA s : Asteroid(20 * U, 20 * U, 2, 2, s))
  /\ players = <<>>
  /\ dt \in Dts
  /\ ticks = 0
  /\ inputsUsed = 0
  /\ games = 0
  /\ ev = EvNone
  /\ probe = ProbeIdle
  /\ loop = LoopIdle

----------------------------------------------------------------------------
(* Entering a game, a round, the next level *)

\* seeded fault for C14: the lives are not given back
startNewGameKeepsLives(s, field) ==
  [mode |-> "Playing", level |-> 1, players |-> <<>>, explosions |-> <<>>,
   screenShakeAmount |-> 0, menuAnimationMs |-> 0, asteroids |-> field,
   ship |-> [s EXCEPT !.score = 0,
                      !.x = WorldW \div 2, !.y = WorldH \div 2, !.dx = 0, !.dy = 0,
                      !.angle = -90, !.isBoosting = FALSE,
                      !.fireCooldownMs = startCooldownMs,
                      !.invincibleMs = graceMs, !.respawnMs = 0, !.bullets = <<>>]]

startNewGame(s, field) ==
  [mode |-> "Playing", level |-> 1, players |-> <<>>, explosions |-> <<>>,
   screenShakeAmount |-> 0, menuAnimationMs |-> 0, asteroids |-> field,
   ship |-> [s EXCEPT !.score = 0, !.lives = startLives,
                      !.x = WorldW \div 2, !.y = WorldH \div 2, !.dx = 0, !.dy = 0,
                      !.angle = -90, !.isBoosting = FALSE,
                      !.fireCooldownMs = startCooldownMs,
                      !.invincibleMs = graceMs, !.respawnMs = 0, !.bullets = <<>>]]

MpShip(x, y, dx, dy, size) ==
  [x |-> x, y |-> y, dx |-> dx, dy |-> dy, size |-> size, invincibleMs |-> graceMs]

\* seeded fault for C15: both players spawn at Blue's place
spawnXSame(color) == WorldW \div 4

spawnX(color) == IF color = "Blue" THEN WorldW \div 4 ELSE (WorldW * 3) \div 4

NewPlayer(color) ==
  [color |-> color, score |-> 0, angle |-> -90, isBoosting |-> FALSE, fireCooldownMs |-> 0,
   ships |-> <<MpShip(spawnX(color), WorldH \div 2, 0, 0, ShipLarge)>>, bullets |-> <<>>]

startVersus(field) ==
  [mode |-> "Versus", level |-> 1, levelTransitionMs |-> 0, screenShakeAmount |-> 0,
   menuAnimationMs |-> 0, explosions |-> <<>>, asteroids |-> field,
   players |-> <<NewPlayer("Blue"), NewPlayer("Red")>>]

\* seeded fault for C13: the reset of the next level also clears the score
nextLevelShipResetsScore(s) ==
  [s EXCEPT !.x = WorldW \div 2, !.y = WorldH \div 2, !.dx = 0, !.dy = 0,
            !.invincibleMs = graceMs, !.respawnMs = 0, !.score = 0]

\* seeded fault for C37: the reset of the next level also clears the bullets
nextLevelShipDropsBullets(s) ==
  [s EXCEPT !.x = WorldW \div 2, !.y = WorldH \div 2, !.dx = 0, !.dy = 0,
            !.invincibleMs = graceMs, !.respawnMs = 0, !.bullets = <<>>]

\* nextLevel's effect on the ship; the level and the field are set by the caller
nextLevelShip(s) ==
  [s EXCEPT !.x = WorldW \div 2, !.y = WorldH \div 2, !.dx = 0, !.dy = 0,
            !.invincibleMs = graceMs, !.respawnMs = 0]

----------------------------------------------------------------------------
(* Controller inputs *)

PlayerCounts == {0, 1, 2}

\* leftStick: magnitude in percent and angle in degrees
Neutral == [mag |-> 0, angle |-> 0]
Full(angle) == [mag |-> 100, angle |-> angle]

Pad(stick, shooting) == [stick |-> stick, shooting |-> shooting]

\* what the single player's pad may read in one tick of length d.  With a
\* tick longer than bulletTtlMs no bullet outlives the tick it is fired in,
\* and the pad is left alone
SpPads(d) ==
  IF d < 1000
  THEN { Pad(Neutral, FALSE), Pad(Full(90), TRUE), Pad(Full(-90), TRUE) }
  ELSE { Pad(Neutral, FALSE) }

\* what the pads of Blue and Red may read in one tick of length d
VsPads(d) ==
  IF d < 1000
  THEN { <<Pad(Neutral, FALSE), Pad(Neutral, FALSE)>>,
         <<Pad(Full(0), TRUE), Pad(Neutral, FALSE)>>,
         <<Pad(Full(0), TRUE), Pad(Full(180), TRUE)>> }
  ELSE { <<Pad(Neutral, FALSE), Pad(Neutral, FALSE)>> }

InputCost(pad) == IF pad.stick.mag > 75 \/ pad.shooting THEN 1 ELSE 0

----------------------------------------------------------------------------
(* Menu tick: update, lines 725-747 *)

\* seeded fault for C10: the two branches tested in the other order
MenuChoiceSingleFirst(count, anyEdge, singleEdge) ==
  IF count > 0 /\ singleEdge THEN "Playing"
  ELSE IF count >= 2 /\ anyEdge THEN "Versus"
  ELSE "Menu"

\* the branch taken on the confirm edge: "Versus", "Playing" or "Menu"
MenuChoice(count, anyEdge, singleEdge) ==
  IF count >= 2 /\ anyEdge THEN "Versus"
  ELSE IF count > 0 /\ singleEdge THEN "Playing"
  ELSE "Menu"

\* the edge states the pads can report with count pads connected
EdgesPossible(count, anyEdge, singleEdge) ==
  /\ singleEdge => anyEdge
  /\ count = 0 => ~anyEdge
  /\ count = 1 => (anyEdge = singleEdge)

\* update, lines 725-747, with the pads' state as the library reports it
updateMenu(count, anyEdge, singleEdge) ==
  /\ mode \notin {"Playing", "Versus"}
  /\ MenuChoice(count, anyEdge, singleEdge) # "Menu" => games < MaxGames
  /\ games' = IF MenuChoice(count, anyEdge, singleEdge) # "Menu" THEN games + 1 ELSE games
  /\ \E moved \in {moveAsteroids(asteroids, dt)},
        choice \in {MenuChoice(count, anyEdge, singleEdge)},
        obs \in {[EvNone EXCEPT !.pre = Pre, !.kind = "menu", !.count = count,
                                !.anyEdge = anyEdge, !.singleEdge = singleEdge]} :
       CASE choice = "Versus" ->
              \E field \in seedLevel(1, baseAsteroidSizes, moved) :
              \E n \in {startVersus(field)} :
                 /\ mode' = n.mode
                 /\ level' = n.level
                 /\ levelTransitionMs' = n.levelTransitionMs
                 /\ menuAnimationMs' = n.menuAnimationMs
                 /\ screenShakeAmount' = n.screenShakeAmount
                 /\ explosions' = n.explosions
                 /\ asteroids' = n.asteroids
                 /\ players' = n.players
                 /\ ship' = ship
                 /\ ev' = obs
         [] choice = "Playing" ->
              \E field \in seedLevel(1, baseAsteroidSizes, moved) :
              \E n \in {startNewGame(ship, field)} :
                 /\ mode' = n.mode
                 /\ level' = n.level
                 /\ levelTransitionMs' = levelTransitionMs
                 /\ menuAnimationMs' = n.menuAnimationMs
                 /\ screenShakeAmount' = n.screenShakeAmount
                 /\ explosions' = n.explosions
                 /\ asteroids' = n.asteroids
                 /\ players' = n.players
                 /\ ship' = n.ship
                 /\ ev' = [obs EXCEPT !.relocated = TRUE]
         [] OTHER ->
              /\ menuAnimationMs' = menuAnimationMs + dt
              /\ asteroids' = moved
              /\ explosions' = tickExplosions(explosions, dt)
              /\ screenShakeAmount' = easeCameraToZero(screenShakeAmount, dt)
              /\ ev' = obs
              /\ UNCHANGED <<mode, level, levelTransitionMs, ship, players>>
  /\ UNCHANGED <<baseAsteroidSizes, dt, ticks, inputsUsed>>

MenuTick ==
  /\ menuAnimationMs < MaxMenuTicks * dt
  /\ \E count \in PlayerCounts, anyEdge \in BOOLEAN, singleEdge \in BOOLEAN :
       /\ EdgesPossible(count, anyEdge, singleEdge)
       /\ updateMenu(count, anyEdge, singleEdge)
  /\ UNCHANGED <<probe, loop>>

----------------------------------------------------------------------------
(* Level-transition blackout of the single-player game: update, lines 749-757 *)

updateBlackout ==
  /\ mode = "Playing"
  /\ levelTransitionMs > 0
  /\ ticks < MaxTicks
  /\ LET lt == Max(0, levelTransitionMs - dt)
     IN /\ levelTransitionMs' = lt
        /\ IF lt = 0
           THEN /\ level' = level + 1
                /\ asteroids' \in seedLevel(level + 1, baseAsteroidSizes, asteroids)
                /\ ship' = nextLevelShip(ship)
                /\ ev' = [EvNone EXCEPT !.pre = Pre, !.kind = "blackout", !.relocated = TRUE]
           ELSE /\ UNCHANGED <<level, asteroids, ship>>
                /\ ev' = [EvNone EXCEPT !.pre = Pre, !.kind = "blackout"]
  /\ ticks' = ticks + 1
  /\ UNCHANGED <<mode, menuAnimationMs, screenShakeAmount, explosions, players,
                 baseAsteroidSizes, dt, inputsUsed, games>>

BlackoutTick == updateBlackout /\ UNCHANGED <<probe, loop>>

----------------------------------------------------------------------------
(* Single-player tick: update, lines 759-1007 *)

Bullet(x, y, dx, dy) == [x |-> x, y |-> y, dx |-> dx, dy |-> dy, ttlMs |-> bulletTtlMs]

\* thrust added to the velocity in one tick at full stick: 0.0003 * dt
spThrust(d) == (3 * d * U) \div 10000

\* bulletSpeed * dt
bulletStep(d) == (Min(WorldW, WorldH) * d) \div 1000

\* lines 759-777: movement and stick
spMove(s, stick, d) ==
  IF s.respawnMs <= 0
  THEN LET x == wrapWithMargin(s.x + s.dx, WorldW, shipSize \div 2)
           y == wrapWithMargin(s.y + s.dy, WorldH, shipSize \div 2)
           boosting == stick.mag > 75
       IN IF boosting
          THEN [s EXCEPT !.x = x, !.y = y, !.isBoosting = TRUE, !.angle = stick.angle,
                         !.dx = s.dx + (Cos(stick.angle) * stick.mag * spThrust(d)) \div 100,
                         !.dy = s.dy + (Sin(stick.angle) * stick.mag * spThrust(d)) \div 100]
          ELSE [s EXCEPT !.x = x, !.y = y, !.isBoosting = FALSE]
  ELSE [s EXCEPT !.isBoosting = FALSE]

\* seeded fault for C27: the respawning ship fires
spFireWhileRespawning(s, shooting, d) ==
  LET cd == Max(0, s.fireCooldownMs - d)
  IN IF cd <= 0 /\ shooting
     THEN LET b == Bullet(s.x + Cos(s.angle) * shipSize, s.y + Sin(s.angle) * shipSize,
                          Cos(s.angle) * bulletStep(d) + s.dx,
                          Sin(s.angle) * bulletStep(d) + s.dy)
          IN [s EXCEPT !.fireCooldownMs = fireCooldownReset, !.bullets = Append(@, b)]
     ELSE [s EXCEPT !.fireCooldownMs = cd]

\* seeded fault for C28: a shot makes two bullets
spFireTwin(s, shooting, d) ==
  LET cd == Max(0, s.fireCooldownMs - d)
  IN IF s.respawnMs <= 0 /\ cd <= 0 /\ shooting
     THEN LET b == Bullet(s.x + Cos(s.angle) * shipSize, s.y + Sin(s.angle) * shipSize,
                          Cos(s.angle) * bulletStep(d) + s.dx,
                          Sin(s.angle) * bulletStep(d) + s.dy)
              bs == s.bullets \o <<b, b>>
          IN [s EXCEPT !.fireCooldownMs = fireCooldownReset,
                       !.bullets = IF Len(bs) > maxActiveBullets
                                   THEN [bs EXCEPT ![1].ttlMs = 0] ELSE bs]
     ELSE [s EXCEPT !.fireCooldownMs = cd]

\* lines 779-800: cooldown and firing
spFire(s, shooting, d) ==
  LET cd == Max(0, s.fireCooldownMs - d)
  IN IF s.respawnMs <= 0 /\ cd <= 0 /\ shooting
     THEN LET b == Bullet(s.x + Cos(s.angle) * shipSize, s.y + Sin(s.angle) * shipSize,
                          Cos(s.angle) * bulletStep(d) + s.dx,
                          Sin(s.angle) * bulletStep(d) + s.dy)
              bs == Append(s.bullets, b)
          IN [s EXCEPT !.fireCooldownMs = fireCooldownReset,
                       !.bullets = IF Len(bs) > maxActiveBullets
                                   THEN [bs EXCEPT ![1].ttlMs = 0] ELSE bs]
     ELSE [s EXCEPT !.fireCooldownMs = cd]

moveBullet(b, d) ==
  [b EXCEPT !.x = wrapWithMargin(b.x + b.dx, WorldW, 0),
            !.y = wrapWithMargin(b.y + b.dy, WorldH, 0),
            !.ttlMs = b.ttlMs - d]

\* lines 802-809
moveBullets(bs, d) ==
  SelectSeq(MapSeq(bs, LAMBDA b : moveBullet(b, d)), LAMBDA b : b.ttlMs > 0)

bulletHitsAsteroidRadius(b, a) ==
  LET dx == wrapDelta(b.x - a.x, WorldW)
      dy == wrapDelta(b.y - a.y, WorldH)
      radiusSum == a.size + bulletRadiusWorld
  IN dx * dx + dy * dy <= radiusSum * radiusSum

pointHitsAsteroidRadius(px, py, a) ==
  LET dx == wrapDelta(px - a.x, WorldW)
      dy == wrapDelta(py - a.y, WorldH)
  IN dx * dx + dy * dy <= a.size * a.size

\* lines 862-867
decayDying(asts, d) ==
  MapSeq(asts, LAMBDA a : IF a.dying THEN [a EXCEPT !.tud = a.tud - d] ELSE a)

\* seeded fault for C7: the inner loop without its `break` keeps the last match
firstHitLast(b, asts) ==
  LET over == {i \in 1..Len(asts) : ~asts[i].dying /\ bulletHitsAsteroidRadius(b, asts[i])}
  IN IF over = {} THEN 0 ELSE CHOOSE x \in over : \A y \in over : x >= y

\* the asteroid a bullet is matched with: the inner loop with its `continue`
\* on dying asteroids and its `break` on the first hit; 0 when there is none
firstHit(b, asts) ==
  LET over == {i \in 1..Len(asts) : ~asts[i].dying /\ bulletHitsAsteroidRadius(b, asts[i])}
  IN IF over = {} THEN 0 ELSE MinOf(over)

\* a Small asteroid that is hit starts to decay; a Big or Medium one is only
\* entered in asteroidsToRemove and stays as it is until the rebuild
markHit(asts, h) ==
  IF asts[h].size = SizeBig \/ asts[h].size = SizeMed
  THEN asts
  ELSE [asts EXCEPT ![h].dying = TRUE, ![h].tud = explosionTtlMs]

RECURSIVE collideBullets(_, _, _, _, _)
\* the bullet loop, lines 874-910 (and 233-264): bullets i.. of owner `who`
\* against asts, given the hits so far; a hit is <<owner, bullet, asteroid>>
collideBullets(who, bs, i, asts, hits) ==
  IF i > Len(bs) THEN [asts |-> asts, hits |-> hits]
  ELSE LET h == firstHit(bs[i], asts)
       IN IF h = 0
          THEN collideBullets(who, bs, i + 1, asts, hits)
          ELSE collideBullets(who, bs, i + 1, markHit(asts, h), Append(hits, <<who, i, h>>))

childSizeOf(size) ==
  IF size = SizeBig THEN SizeMed ELSE IF size = SizeMed THEN SizeSmall ELSE 0

\* the (direction, speed, jitterX, jitterY) Math.random may deliver to
\* splitAsteroid: speed in [0.005, 0.015), jitter in [-0.125, 0.125)
ChildDraws ==
  { [dir |-> 0, speed |-> 1, jx |-> 0, jy |-> 0],
    [dir |-> 180, speed |-> 2, jx |-> -(U \div 8), jy |-> (U \div 8) - 1] }

makeChild(a, c) ==
  LET childSize == childSizeOf(a.size)
  IN Asteroid(wrapWithMargin(a.x + c.jx, WorldW, childSize),
              wrapWithMargin(a.y + c.jy, WorldH, childSize),
              Cos(c.dir) * c.speed, Sin(c.dir) * c.speed, childSize)

\* number of children one split produces: [true, true].map(...)
childrenPerSplit == 2

\* the hits that split their asteroid, in order
splitHits(asts, hits) ==
  SelectSeq(hits, LAMBDA h : asts[h[3]].size = SizeBig \/ asts[h[3]].size = SizeMed)

\* the childrenToAdd lists the hits may produce: splitAsteroid once per hit
childrenToAdd(asts, hits) ==
  LET sp == splitHits(asts, hits)
      n == Len(sp) * childrenPerSplit
  IN { [k \in 1..n |-> makeChild(asts[sp[(k + childrenPerSplit - 1) \div childrenPerSplit][3]], f[k])] :
         f \in [1..n -> ChildDraws] }

asteroidsToRemove(asts, hits) ==
  {h[3] : h \in {hits[k] : k \in 1..Len(hits)}} \cap
  {i \in 1..Len(asts) : asts[i].size = SizeBig \/ asts[i].size = SizeMed}

\* seeded fault for C30: the cull keeps an asteroid whose decay has run out
rebuildAsteroidsKeepsSpent(asts, remove, kids) ==
  SelectSeq(KeepIdx(asts, {i \in 1..Len(asts) : asts[i].dying \/ i \notin remove}, 1) \o kids,
            LAMBDA a : ~a.dying \/ a.tud >= 0)

\* lines 915-923 (and 268-272)
rebuildAsteroids(asts, remove, kids) ==
  SelectSeq(KeepIdx(asts, {i \in 1..Len(asts) : asts[i].dying \/ i \notin remove}, 1) \o kids,
            LAMBDA a : ~a.dying \/ a.tud > 0)

\* seeded fault for C29: every hit scores as a Small asteroid
spScoreFlat(asts, hits) == Len(hits) * (SizeSmall \div U) * 10

\* the score of the hits: asteroid.size * 10 each
spScore(asts, hits) == SumSeq(MapSeq(hits, LAMBDA h : (asts[h[3]].size \div U) * 10))

\* the bursts of the hits
hitBursts(hits) ==
  IF Len(hits) = 0 THEN {<<>>}
  ELSE { [k \in 1..Len(hits) |-> (explosionDurationMsAsteroid * f[k]) \div 100] :
           f \in [1..Len(hits) -> SparkLifePcts] }

\* seeded fault for C8: the respawn without the safety test
isSafeAlways(asts) == TRUE

isSafe(asts) ==
  \A i \in 1..Len(asts) :
    \/ asts[i].dying
    \/ LET dx == wrapDelta(centerX - asts[i].x, WorldW)
           dy == wrapDelta(centerY - asts[i].y, WorldH)
           r == asts[i].size + (shipSize * 3) \div 2
       IN dx * dx + dy * dy > r * r

\* seeded fault for C9: the retry branch also grants the grace period
respawnStepEager(s, asts, d) ==
  LET r == Max(0, s.respawnMs - d)
  IN IF r = 0
     THEN IF isSafe(asts)
          THEN [s EXCEPT !.respawnMs = 0, !.x = centerX, !.y = centerY, !.invincibleMs = graceMs]
          ELSE [s EXCEPT !.respawnMs = respawnRetryMs, !.invincibleMs = graceMs]
     ELSE [s EXCEPT !.respawnMs = r]

\* seeded fault for C26: the retry waits for the whole respawn delay again
respawnStepRetrySlow(s, asts, d) ==
  LET r == Max(0, s.respawnMs - d)
  IN IF r = 0
     THEN IF isSafe(asts)
          THEN [s EXCEPT !.respawnMs = 0, !.x = centerX, !.y = centerY, !.invincibleMs = graceMs]
          ELSE [s EXCEPT !.respawnMs = respawnDelayMs]
     ELSE [s EXCEPT !.respawnMs = r]

\* seeded fault for C35: the respawned ship gets no invincibility
respawnStepNoGrace(s, asts, d) ==
  LET r == Max(0, s.respawnMs - d)
  IN IF r = 0
     THEN IF isSafe(asts)
          THEN [s EXCEPT !.respawnMs = 0, !.x = centerX, !.y = centerY]
          ELSE [s EXCEPT !.respawnMs = respawnRetryMs]
     ELSE [s EXCEPT !.respawnMs = r]

\* lines 939-961: the respawn countdown and the safe respawn at the centre
respawnStep(s, asts, d) ==
  LET r == Max(0, s.respawnMs - d)
  IN IF r = 0
     THEN IF isSafe(asts)
          THEN [s EXCEPT !.respawnMs = 0, !.x = centerX, !.y = centerY, !.invincibleMs = graceMs]
          ELSE [s EXCEPT !.respawnMs = respawnRetryMs]
     ELSE [s EXCEPT !.respawnMs = r]

shipHitsAsteroid(s, a) ==
  /\ ~a.dying
  /\ \/ pointHitsAsteroidRadius(s.x, s.y, a)
     \/ pointHitsAsteroidRadius(s.x + Cos(s.angle) * shipSize, s.y + Sin(s.angle) * shipSize, a)

\* seeded fault for C24: the respawn timer is left running at game over
killShipKeepsTimer(s) ==
  [s EXCEPT !.respawnMs = respawnDelayMs, !.invincibleMs = 0, !.dx = 0, !.dy = 0,
            !.lives = Max(0, s.lives - 1), !.bullets = <<>>]

\* seeded fault for C25: a collision costs two lives
killShipTakesTwo(s) ==
  LET lives == Max(0, s.lives - 2)
  IN [s EXCEPT !.respawnMs = IF lives = 0 THEN 0 ELSE respawnDelayMs,
               !.invincibleMs = 0, !.dx = 0, !.dy = 0, !.lives = lives, !.bullets = <<>>]

\* lines 974-979, 990-995: the ship after a collision
killShip(s) ==
  LET lives == Max(0, s.lives - 1)
  IN [s EXCEPT !.respawnMs = IF lives = 0 THEN 0 ELSE respawnDelayMs,
               !.invincibleMs = 0, !.dx = 0, !.dy = 0, !.lives = lives, !.bullets = <<>>]

\* seeded fault for C2: the game ends one life early
modeAfterDeathOffByOne(s) == IF s.lives <= 1 THEN "Menu" ELSE "Playing"

\* line 991-992: the mode after a collision
modeAfterDeath(s) == IF s.lives = 0 THEN "Menu" ELSE "Playing"

\* seeded fault for C11: the countdown starts again while the field is empty
levelClockRestart(field, lt) ==
  IF Len(field) = 0 THEN levelTransitionDurationMs ELSE lt

\* lines 275-278 and 925-929: an empty field starts the level transition
levelClock(field, lt) ==
  IF Len(field) = 0 /\ lt <= 0 THEN levelTransitionDurationMs ELSE lt

updatePlaying ==
  /\ mode = "Playing"
  /\ levelTransitionMs <= 0
  /\ ticks < MaxTicks
  /\ \E pad \in SpPads(dt) :
       /\ inputsUsed + InputCost(pad) <= MaxInputs
       /\ inputsUsed' = inputsUsed + InputCost(pad)
       /\ \E s1 \in {spFire(spMove(ship, pad.stick, dt), pad.shooting, dt)},
             asts \in {decayDying(moveAsteroids(asteroids, dt), dt)} :
          \E bs \in {moveBullets(s1.bullets, dt)} :
          \E col \in {collideBullets(1, bs, 1, asts, <<>>)} :
          \E hits \in {col.hits} :
          \E kids \in childrenToAdd(asts, hits), bursts \in hitBursts(hits),
             pct \in SparkLifePcts :
          \E field \in {rebuildAsteroids(col.asts, asteroidsToRemove(asts, hits), kids)},
             s2 \in {[s1 EXCEPT !.score = s1.score + spScore(asts, hits),
                                !.bullets = KeepIdx(bs, (1..Len(bs)) \ {hits[k][2] : k \in 1..Len(hits)}, 1),
                                !.invincibleMs = Max(0, s1.invincibleMs - dt)]} :
          \E struck \in {/\ s2.respawnMs <= 0
                         /\ s2.invincibleMs <= 0
                         /\ \E i \in 1..Len(field) : shipHitsAsteroid(s2, field[i])} :
          \E s3 \in {IF s2.respawnMs > 0 THEN respawnStep(s2, field, dt)
                     ELSE IF struck THEN killShip(s2) ELSE s2} :
            /\ ship' = s3
            /\ asteroids' = field
            /\ levelTransitionMs' = levelClock(field, levelTransitionMs)
            /\ mode' = IF struck THEN modeAfterDeath(s3) ELSE mode
            /\ menuAnimationMs' = IF struck /\ s3.lives = 0 THEN 0 ELSE menuAnimationMs
            /\ explosions' = tickExplosions(
                 explosions \o bursts \o
                   (IF struck THEN spawnSparkBurst(explosionDurationMsShip, pct) ELSE <<>>), dt)
            /\ screenShakeAmount' = easeCameraToZero(
                 IF struck THEN 1000000
                 ELSE IF Len(hits) > 0 THEN shakeForAsteroid(asts[hits[Len(hits)][3]].size)
                 ELSE screenShakeAmount, dt)
            /\ ev' = [EvNone EXCEPT !.pre = Pre, !.kind = "playing", !.hits = hits,
                                    !.removed = asteroidsToRemove(asts, hits),
                                    !.kids = Len(kids), !.died = struck,
                                    !.relocated = s2.respawnMs > 0 /\ s3.respawnMs = 0,
                                    !.retried = s2.respawnMs > 0 /\ s2.respawnMs - dt <= 0
                                                  /\ s3.respawnMs > 0,
                                    !.asts = asts, !.bs = <<bs>>,
                                    !.fieldLen = Len(field),
                                    !.bursts = Len(hits) + (IF struck THEN 1 ELSE 0),
                                    !.pad = pad, !.afterFire = s1, !.atCollision = s2]
  /\ ticks' = ticks + 1
  /\ UNCHANGED <<level, players, baseAsteroidSizes, dt, games>>

PlayingTick == updatePlaying /\ UNCHANGED <<probe, loop>>

----------------------------------------------------------------------------
(* Versus tick: updateVersus, lines 112-458 *)

\* makeShipGeometry: the hull polygon of a ship of size s, nose along +x
shipVerts(s) ==
  << <<s, 0>>, <<-((6 * s) \div 10), (5 * s) \div 10>>,
     <<-((35 * s) \div 100), (2 * s) \div 10>>,
     <<-((35 * s) \div 100), -((2 * s) \div 10)>>,
     <<-((6 * s) \div 10), -((5 * s) \div 10)>> >>

transformPoints(points, angle, tx, ty) ==
  [i \in 1..Len(points) |->
     <<tx + (points[i][1] * Cos(angle) - points[i][2] * Sin(angle)),
       ty + (points[i][1] * Sin(angle) + points[i][2] * Cos(angle))>>]

\* one edge test of pointInPolygon:
\*   yi > py !== yj > py && px < ((xj - xi) * (py - yi)) / (yj - yi) + xi
\* with the division cleared by multiplying with yj - yi (nonzero here)
edgeCrossed(px, py, xi, yi, xj, yj) ==
  /\ (yi > py) # (yj > py)
  /\ IF yj - yi > 0
     THEN (px - xi) * (yj - yi) < (xj - xi) * (py - yi)
     ELSE (px - xi) * (yj - yi) > (xj - xi) * (py - yi)

\* the even-odd rule: inside iff an odd number of edges is crossed
pointInPolygon(px, py, poly) ==
  LET n == Len(poly)
      crossed == {i \in 1..n :
                    LET j == IF i = 1 THEN n ELSE i - 1
                    IN edgeCrossed(px, py, poly[i][1], poly[i][2], poly[j][1], poly[j][2])}
  IN Cardinality(crossed) % 2 = 1

\* thrust added to the velocity in one tick at full stick: 0.00025 * dt
vsThrust(d) == (25 * d * U) \div 100000

\* seeded fault for C39: a player without ships fires from its spawn point
vsPhysicsGhostFire(p, pad, d) ==
  LET boosting == pad.stick.mag > 75
      angle == IF boosting THEN pad.stick.angle ELSE p.angle
      cd == Max(0, p.fireCooldownMs - d)
      fires == cd <= 0 /\ pad.shooting
      fired == IF fires
               THEN p.bullets \o
                    (IF Len(p.ships) = 0
                     THEN <<Bullet(spawnX(p.color), WorldH \div 2, 0, -bulletStep(d))>>
                     ELSE <<>>) \o
                    [i \in 1..Len(p.ships) |->
                       Bullet(p.ships[i].x + Cos(angle) * p.ships[i].size,
                              p.ships[i].y + Sin(angle) * p.ships[i].size,
                              Cos(angle) * bulletStep(d) + p.ships[i].dx,
                              Sin(angle) * bulletStep(d) + p.ships[i].dy)]
               ELSE p.bullets
      ax == IF boosting THEN (Cos(angle) * pad.stick.mag * vsThrust(d)) \div 100 ELSE 0
      ay == IF boosting THEN (Sin(angle) * pad.stick.mag * vsThrust(d)) \div 100 ELSE 0
  IN [p EXCEPT !.isBoosting = boosting,
               !.angle = angle,
               !.fireCooldownMs = IF fires THEN fireCooldownReset ELSE cd,
               !.ships = [i \in 1..Len(p.ships) |->
                            [p.ships[i] EXCEPT
                               !.dx = @ + ax, !.dy = @ + ay,
                               !.x = wrapWithMargin(@ + p.ships[i].dx + ax, WorldW, p.ships[i].size \div 2),
                               !.y = wrapWithMargin(@ + p.ships[i].dy + ay, WorldH, p.ships[i].size \div 2),
                               !.invincibleMs = Max(0, @ - d)]],
               !.bullets = moveBullets(fired, d)]

\* lines 130-187: one player's input, firing, movement and bullets
vsPhysics(p, pad, d) ==
  LET boosting == pad.stick.mag > 75
      angle == IF boosting THEN pad.stick.angle ELSE p.angle
      cd == Max(0, p.fireCooldownMs - d)
      fires == Len(p.ships) > 0 /\ cd <= 0 /\ pad.shooting
      fired == IF fires
               THEN p.bullets \o
                    [i \in 1..Len(p.ships) |->
                       Bullet(p.ships[i].x + Cos(angle) * p.ships[i].size,
                              p.ships[i].y + Sin(angle) * p.ships[i].size,
                              Cos(angle) * bulletStep(d) + p.ships[i].dx,
                              Sin(angle) * bulletStep(d) + p.ships[i].dy)]
               ELSE p.bullets
      ax == IF boosting THEN (Cos(angle) * pad.stick.mag * vsThrust(d)) \div 100 ELSE 0
      ay == IF boosting THEN (Sin(angle) * pad.stick.mag * vsThrust(d)) \div 100 ELSE 0
  IN [p EXCEPT !.isBoosting = boosting,
               !.angle = angle,
               !.fireCooldownMs = IF fires THEN fireCooldownReset ELSE cd,
               !.ships = [i \in 1..Len(p.ships) |->
                            [p.ships[i] EXCEPT
                               !.dx = @ + ax, !.dy = @ + ay,
                               !.x = wrapWithMargin(@ + p.ships[i].dx + ax, WorldW, p.ships[i].size \div 2),
                               !.y = wrapWithMargin(@ + p.ships[i].dy + ay, WorldH, p.ships[i].size \div 2),
                               !.invincibleMs = Max(0, @ - d)]],
               !.bullets = moveBullets(fired, d)]

scoreForAsteroid(s) == IF s = SizeBig THEN 20 ELSE IF s = SizeMed THEN 50 ELSE 100

scoreForShip(sz) == IF sz = ShipLarge THEN 40 ELSE IF sz = ShipMed THEN 100 ELSE 200

\* the score player `who` earns from the asteroid hits
vsScore(who, asts, hits) ==
  SumSeq(MapSeq(SelectSeq(hits, LAMBDA h : h[1] = who),
                LAMBDA h : scoreForAsteroid(asts[h[3]].size)))

\* the indices of the bullets of `who` that hit no asteroid
survivorsOf(who, bs, hits) ==
  KeepIdx([i \in 1..Len(bs) |-> i],
          (1..Len(bs)) \ {hits[k][2] : k \in {j \in 1..Len(hits) : hits[j][1] = who}}, 1)

\* seeded fault for C5: the level reset also resets the score
resetPlayerAll(p) == NewPlayer(p.color)

\* seeded fault for C38: the level reset passes over a player without ships
resetPlayerSurvivorsOnly(p) ==
  IF Len(p.ships) = 0 THEN p
  ELSE [p EXCEPT !.angle = -90, !.isBoosting = FALSE, !.fireCooldownMs = startCooldownMs,
                 !.ships = <<MpShip(spawnX(p.color), WorldH \div 2, 0, 0, ShipLarge)>>,
                 !.bullets = <<>>]

\* seeded fault for C33: the level reset leaves the bullets in flight
resetPlayerKeepsBullets(p) ==
  [p EXCEPT !.angle = -90, !.isBoosting = FALSE, !.fireCooldownMs = startCooldownMs,
            !.ships = <<MpShip(spawnX(p.color), WorldH \div 2, 0, 0, ShipLarge)>>]

\* lines 284-301: both players back to one Large ship at their spawn point
resetPlayer(p) ==
  [p EXCEPT !.angle = -90, !.isBoosting = FALSE, !.fireCooldownMs = startCooldownMs,
            !.ships = <<MpShip(spawnX(p.color), WorldH \div 2, 0, 0, ShipLarge)>>,
            !.bullets = <<>>]

\* seeded fault for C40: the fragments of a split are as large as the ship was
nextShipSizeSame(size) == IF size = ShipSmall THEN 0 ELSE size

nextShipSize(size) ==
  IF size = ShipLarge THEN ShipMed ELSE IF size = ShipMed THEN ShipSmall ELSE 0

\* the angles theta that tryPlace may draw; r is drawn as minR
PlaceThetas == {0, 180}

\* ships[index] replaced by `with`: Array.splice(index, 1, ...with)
splice(ships, index, with) ==
  SubSeq(ships, 1, index - 1) \o with \o SubSeq(ships, index + 1, Len(ships))

overlapsAny(x, y, next, existing) ==
  \E k \in 1..Len(existing) :
     Sq(x - existing[k].x) + Sq(y - existing[k].y) < Sq(next + existing[k].size)

\* the results tryPlace may return: a drawn position that overlaps no ship of
\* `existing`, or null (<<>>) when every one of its 24 draws may overlap
tryPlace(base, next, existing) ==
  LET cands == { MpShip(base.x + Cos(t) * (next * 2), base.y + Sin(t) * (next * 2),
                        base.dx, base.dy, next) : t \in PlaceThetas }
  IN { <<c>> : c \in {e \in cands : ~overlapsAny(e.x, e.y, next, existing)} }
     \cup (IF \E e \in cands : overlapsAny(e.x, e.y, next, existing) THEN {<<>>} ELSE {})

\* seeded fault for C17: a first fragment that found a place is kept when the
\* second finds none
splitShipFragmentKeepsOne(ships, index) ==
  LET next == nextShipSize(ships[index].size)
      pool == splice(ships, index, <<>>)
  IN IF next = 0 THEN {pool}
     ELSE UNION { IF a = <<>> THEN {pool}
                  ELSE { splice(ships, index, a \o b) :
                           b \in tryPlace(ships[index], next, pool \o a) } :
                  a \in tryPlace(ships[index], next, pool) }

\* lines 306-345: the ship lists splitShipFragment may leave
splitShipFragment(ships, index) ==
  LET next == nextShipSize(ships[index].size)
      pool == splice(ships, index, <<>>)
  IN IF next = 0 THEN {pool}
     ELSE UNION { IF a = <<>> THEN {pool}
                  ELSE { IF b = <<>> THEN pool ELSE splice(ships, index, a \o b) :
                           b \in tryPlace(ships[index], next, pool \o a) } :
                  a \in tryPlace(ships[index], next, pool) }

\* the first ship of the defender that bullet b is inside, 0 when there is none
firstShipHit(b, defender) ==
  LET inside == {si \in 1..Len(defender.ships) :
                   /\ defender.ships[si].invincibleMs <= 0
                   /\ pointInPolygon(b.x, b.y,
                        transformPoints(shipVerts(defender.ships[si].size), defender.angle,
                                        defender.ships[si].x, defender.ships[si].y))}
  IN IF inside = {} THEN 0 ELSE MinOf(inside)

\* seeded fault for C16: the attacker is not left out of the defenders
othersOfAll(n, ai) == [i \in 1..n |-> i]

\* line 349: the players other than the attacker, in order
othersOf(n, ai) == SelectSeq([i \in 1..n |-> i], LAMBDA i : i # ai)

\* the <<defender, ship>> bullet b of attacker ai hits: the first of the other
\* players that has a ship b is inside; <<0, 0>> when there is none
firstDefenderHit(b, ps, ai) ==
  LET others == othersOf(Len(ps), ai)
      struck == {k \in 1..Len(others) : firstShipHit(b, ps[others[k]]) # 0}
  IN IF struck = {} THEN <<0, 0>>
     ELSE <<others[MinOf(struck)], firstShipHit(b, ps[others[MinOf(struck)]])>>

RECURSIVE bulletsVsShips(_, _, _)
\* lines 347-380, from bullet bi of attacker ai on.  st.ps are the players,
\* st.orig[ai] the indices the attacker's bullets had before the asteroid
\* loop, st.shipHits the <<attacker, bullet, size, defender, invincibleMs>>
\* of the hits so far, and st.gone the bullets to drop from the survivors
bulletsVsShips(st, ai, bi) ==
  IF ai > Len(st.ps) THEN {st}
  ELSE IF bi > Len(st.ps[ai].bullets)
       THEN bulletsVsShips(
              [st EXCEPT !.ps[ai].bullets =
                           KeepIdx(@, (1..Len(@)) \ {g[2] : g \in {h \in st.gone : h[1] = ai}}, 1),
                         !.gone = {}],
              ai + 1, 1)
       ELSE LET target == firstDefenderHit(st.ps[ai].bullets[bi], st.ps, ai)
                di == target[1]
                si == target[2]
            IN IF si = 0 THEN bulletsVsShips(st, ai, bi + 1)
               ELSE UNION { bulletsVsShips(
                              [st EXCEPT !.ps[ai].score = @ + scoreForShip(st.ps[di].ships[si].size),
                                         !.ps[di].ships = ships,
                                         !.shipHits = Append(@, <<ai, st.orig[ai][bi],
                                                                   st.ps[di].ships[si].size, di,
                                                                   st.ps[di].ships[si].invincibleMs>>),
                                         !.gone = @ \cup {<<ai, bi>>},
                                         !.bursts = @ + 1,
                                         !.splits = Append(@, <<st.ps[di].ships, si, ships>>)],
                              ai, bi + 1) :
                            ships \in splitShipFragment(st.ps[di].ships, si) }

asteroidOverlapsShip(s, asts) ==
  \E k \in 1..Len(asts) :
     Sq(wrapDelta(s.x - asts[k].x, WorldW)) + Sq(wrapDelta(s.y - asts[k].y, WorldH))
       <= Sq(asts[k].size + s.size)

RECURSIVE asteroidsVsShips(_, _, _, _)
\* lines 382-407, from ship si of player pi on
asteroidsVsShips(st, asts, pi, si) ==
  IF pi > Len(st.ps) THEN {st}
  ELSE IF si > Len(st.ps[pi].ships) THEN asteroidsVsShips(st, asts, pi + 1, 1)
  ELSE IF st.ps[pi].ships[si].invincibleMs > 0 \/ ~asteroidOverlapsShip(st.ps[pi].ships[si], asts)
       THEN asteroidsVsShips(st, asts, pi, si + 1)
       ELSE UNION { asteroidsVsShips([st EXCEPT !.ps[pi].ships = ships, !.bursts = @ + 1,
                                                !.crashes = @ + 1,
                                                !.splits = Append(@, <<st.ps[pi].ships, si, ships>>)],
                                     asts, pi, si) :
                    ships \in splitShipFragment(st.ps[pi].ships, si) }

\* seeded fault for C34: only the first player's grace timer is looked at
shipsCollideOneGrace(sa, sb) ==
  /\ sa.invincibleMs <= 0
  /\ Sq(wrapDelta(sa.x - sb.x, WorldW)) + Sq(wrapDelta(sa.y - sb.y, WorldH))
       <= Sq(sa.size + sb.size)

\* lines 418-422: the test of one pair of opposing fragments
shipsCollide(sa, sb) ==
  /\ sa.invincibleMs <= 0
  /\ sb.invincibleMs <= 0
  /\ Sq(wrapDelta(sa.x - sb.x, WorldW)) + Sq(wrapDelta(sa.y - sb.y, WorldH))
       <= Sq(sa.size + sb.size)

RECURSIVE shipsVsShips(_, _, _)
\* lines 409-449 for the two players, from the pair (a, b) on
shipsVsShips(st, a, b) ==
  IF Len(st.ps) < 2 \/ a > Len(st.ps[1].ships) THEN {st}
  ELSE IF b > Len(st.ps[2].ships) THEN shipsVsShips(st, a + 1, 1)
  ELSE IF ~shipsCollide(st.ps[1].ships[a], st.ps[2].ships[b]) THEN shipsVsShips(st, a, b + 1)
       ELSE UNION { shipsVsShips([st EXCEPT !.ps[1].ships = shipsA, !.ps[2].ships = shipsB,
                                            !.bursts = @ + 2, !.crashes = @ + 1, !.rams = @ + 1,
                                            !.splits = @ \o << <<st.ps[2].ships, b, shipsB>>,
                                                               <<st.ps[1].ships, a, shipsA>> >>],
                                 a, 1) :
                    shipsA \in splitShipFragment(st.ps[1].ships, a),
                    shipsB \in splitShipFragment(st.ps[2].ships, b) }

\* line 452-453
alive(ps, i) == Len(ps) >= i /\ Len(ps[i].ships) > 0

\* seeded fault for C3: only Red's fleet is looked at
roundDecidedRedOnly(blueAlive, redAlive) == ~redAlive

\* seeded fault for C4: a round with nobody left counts as decided
roundDecidedAnyDead(blueAlive, redAlive) == ~(blueAlive /\ redAlive)

\* line 454: the round is decided when exactly one side is left
roundDecided(blueAlive, redAlive) == blueAlive # redAlive

\* seeded fault for C1: the end condition without the level-transition guard
versusEndsAnyTime(lt, blueAlive, redAlive) == blueAlive # redAlive

\* seeded fault for C36: a running countdown ends the round as well
versusEndsDuringCountdown(lt, blueAlive, redAlive) ==
  lt > 0 \/ roundDecided(blueAlive, redAlive)

\* line 454: the end condition
versusEnds(lt, blueAlive, redAlive) == lt <= 0 /\ roundDecided(blueAlive, redAlive)

updateVersus ==
  /\ mode = "Versus"
  /\ ticks < MaxTicksVersus
  /\ \E pads \in VsPads(dt) :
       /\ inputsUsed + Max(InputCost(pads[1]), InputCost(pads[2])) <= MaxInputs
       /\ inputsUsed' = inputsUsed + Max(InputCost(pads[1]), InputCost(pads[2]))
       /\ \E asts \in {moveAsteroids(asteroids, dt)},
             p1 \in {vsPhysics(players[1], pads[1], dt)},
             p2 \in {vsPhysics(players[2], pads[2], dt)} :
          \E col1 \in {collideBullets(1, p1.bullets, 1, asts, <<>>)} :
          \E col \in {collideBullets(2, p2.bullets, 1, col1.asts, col1.hits)} :
          \E hits \in {col.hits} :
          \E kids \in childrenToAdd(asts, hits), bursts \in hitBursts(hits),
             pct \in SparkLifePcts :
          \E field \in {rebuildAsteroids(col.asts, asteroidsToRemove(asts, hits), kids)},
             orig \in {<<survivorsOf(1, p1.bullets, hits), survivorsOf(2, p2.bullets, hits)>>} :
          \E q1 \in {[p1 EXCEPT !.score = @ + vsScore(1, asts, hits),
                                !.bullets = KeepIdx(@, {orig[1][k] : k \in 1..Len(orig[1])}, 1)]},
             q2 \in {[p2 EXCEPT !.score = @ + vsScore(2, asts, hits),
                                !.bullets = KeepIdx(@, {orig[2][k] : k \in 1..Len(orig[2])}, 1)]},
             lt \in {Max(0, levelClock(field, levelTransitionMs) - dt)},
             expires \in {/\ levelClock(field, levelTransitionMs) > 0
                          /\ levelClock(field, levelTransitionMs) - dt <= 0} :
          \E seeded \in (IF expires THEN seedLevel(level + 1, baseAsteroidSizes, field)
                         ELSE {field}) :
          \E st \in UNION { UNION { shipsVsShips(s2, 1, 1) :
                                    s2 \in asteroidsVsShips(s1, seeded, 1, 1) } :
                            s1 \in bulletsVsShips(
                                     [ps |-> IF expires THEN <<resetPlayer(q1), resetPlayer(q2)>>
                                             ELSE <<q1, q2>>,
                                      orig |-> IF expires THEN << <<>>, <<>> >> ELSE orig,
                                      shipHits |-> <<>>, gone |-> {}, bursts |-> 0,
                                      crashes |-> 0, rams |-> 0, splits |-> <<>>],
                                     1, 1) } :
            /\ players' = st.ps
            /\ asteroids' = seeded
            /\ level' = IF expires THEN level + 1 ELSE level
            /\ ship' = IF expires THEN nextLevelShip(ship) ELSE ship
            /\ levelTransitionMs' = lt
            /\ mode' = IF versusEnds(lt, alive(st.ps, 1), alive(st.ps, 2)) THEN "Menu" ELSE mode
            /\ menuAnimationMs' = IF versusEnds(lt, alive(st.ps, 1), alive(st.ps, 2))
                                  THEN 0 ELSE menuAnimationMs
            /\ explosions' = tickExplosions(explosions, dt) \o bursts \o
                               [k \in 1..st.bursts |-> (explosionDurationMsShip * pct) \div 100]
            /\ screenShakeAmount' =
                 IF st.bursts > 0 THEN 1000000
                 ELSE IF Len(hits) > 0 THEN shakeForAsteroid(asts[hits[Len(hits)][3]].size)
                 ELSE easeCameraToZero(screenShakeAmount, dt)
            /\ ev' = [EvNone EXCEPT !.pre = Pre, !.kind = "versus", !.hits = hits,
                                    !.shipHits = st.shipHits,
                                    !.removed = asteroidsToRemove(asts, hits),
                                    !.kids = Len(kids), !.relocated = expires,
                                    !.died = st.bursts > 0,
                                    !.asts = asts, !.bs = <<p1.bullets, p2.bullets>>,
                                    !.fieldLen = Len(field),
                                    !.bursts = Len(hits) + st.bursts,
                                    !.crashes = st.crashes, !.rams = st.rams,
                                    !.splits = st.splits, !.pad = pads]
  /\ ticks' = ticks + 1
  /\ UNCHANGED <<baseAsteroidSizes, dt, games>>

VersusTick == updateVersus /\ UNCHANGED <<probe, loop>>

Next == MenuTick \/ BlackoutTick \/ PlayingTick \/ VersusTick

Spec == Init /\ [][Next]_vars

----------------------------------------------------------------------------
(* A Versus round in progress, for the claims about fleets of fragments.   *)
(* Blue's Large ship was hit by Red and split into two Medium fragments,   *)
(* 2 * ShipMed to either side of where it was; the grace timers have run   *)
(* out, and Red has come within range.  The tick is short enough for a     *)
(* bullet to be sampled inside a sibling fragment.                         *)

\* tick lengths explored (ms)
FleetDts == {60}

\* Red's ship: whole, or down to its last Small fragment
FleetRedSizes == {ShipLarge, ShipSmall}

fragment(x, y, size) == [MpShip(x, y, 0, 0, size) EXCEPT !.invincibleMs = 0]

InitFleet ==
  /\ mode = "Versus"
  /\ level = 1
  /\ levelTransitionMs = 0
  /\ menuAnimationMs = 0
  /\ screenShakeAmount = 0
  /\ explosions = <<>>
  /\ ship = InitShip
  /\ baseAsteroidSizes = <<SizeBig>>
  /\ asteroids = <<Asteroid(centerX, 17 * U, 0, 0, SizeBig)>>
  /\ \E redSize \in FleetRedSizes :
       players =
         << [NewPlayer("Blue") EXCEPT
               !.ships = << fragment(spawnX("Blue") - 2 * ShipMed, WorldH \div 2, ShipMed),
                            fragment(spawnX("Blue") + 2 * ShipMed, WorldH \div 2, ShipMed) >>],
            [NewPlayer("Red") EXCEPT
               !.score = scoreForShip(ShipLarge),
               !.ships = << fragment(spawnX("Blue") + 18 * U, WorldH \div 2, redSize) >>] >>
  /\ dt \in FleetDts
  /\ ticks = 0
  /\ inputsUsed = 0
  /\ games = 1
  /\ ev = EvNone
  /\ probe = ProbeIdle
  /\ loop = LoopIdle

NextFleet == VersusTick

SpecFleet == InitFleet /\ [][NextFleet]_vars

----------------------------------------------------------------------------
(* A single-player game in progress, for the claims about the respawning   *)
(* ship.  The ship flew to the right of the centre and was destroyed there *)
(* by a Big asteroid, which has drifted on; the respawn timer has one or   *)
(* two ticks left to run.                                                  *)

\* tick lengths explored (ms)
RespawnDts == {300}

\* what is left of the respawn timer
RespawnLeft == {300, 600}

InitRespawn ==
  /\ mode = "Playing"
  /\ level = 1
  /\ levelTransitionMs = 0
  /\ menuAnimationMs = 0
  /\ screenShakeAmount = 0
  /\ explosions = <<>>
  /\ \E left \in RespawnLeft :
       ship = [killShip([InitShip EXCEPT !.x = centerX + 10 * U, !.lives = startLives - 1])
                 EXCEPT !.respawnMs = left]
  /\ baseAsteroidSizes = <<SizeBig>>
  /\ asteroids = <<Asteroid(centerX + 24 * U, centerY, 1, 0, SizeBig)>>
  /\ players = <<>>
  /\ dt \in RespawnDts
  /\ ticks = 0
  /\ inputsUsed = 0
  /\ games = 1
  /\ ev = EvNone
  /\ probe = ProbeIdle
  /\ loop = LoopIdle

NextRespawn == PlayingTick

SpecRespawn == InitRespawn /\ [][NextRespawn]_vars

----------------------------------------------------------------------------
(* A single-player game in progress, for the claims about the bullet cap.  *)
(* The ship is at the centre, ready to fire, with as many bullets in       *)
(* flight as the cap allows: a row of bullets flying up, the oldest first. *)

\* tick lengths explored (ms)
BarrageDts == {300}

InitBarrage ==
  /\ mode = "Playing"
  /\ level = 1
  /\ levelTransitionMs = 0
  /\ menuAnimationMs = 0
  /\ screenShakeAmount = 0
  /\ explosions = <<>>
  /\ dt \in BarrageDts
  /\ ship = [InitShip EXCEPT
               !.x = centerX, !.y = centerY, !.angle = -90,
               !.bullets = [k \in 1..maxActiveBullets |->
                              [Bullet(centerX + (k - 5) * U, centerY - 10 * U,
                                      0, -bulletStep(dt))
                                 EXCEPT !.ttlMs = bulletTtlMs - 10 * (maxActiveBullets - k)]]]
  /\ baseAsteroidSizes = <<SizeBig>>
  /\ asteroids = <<Asteroid(20 * U, 20 * U, 0, 0, SizeBig)>>
  /\ players = <<>>
  /\ ticks = 0
  /\ inputsUsed = 0
  /\ games = 1
  /\ ev = EvNone
  /\ probe = ProbeIdle
  /\ loop = LoopIdle

NextBarrage == PlayingTick

SpecBarrage == InitBarrage /\ [][NextBarrage]_vars

----------------------------------------------------------------------------
(* A Versus round in progress, for the claims about ship-ship collisions.  *)
(* Blue's Large ship was split into two Medium fragments, one on each side *)
(* of where it was, whose grace timers run out in the first tick; Red's    *)
(* Large ship has flown to that place, or 3 units or 40 units to the right *)
(* of it, and its grace timer has run out or runs out in the second tick.  *)
(* Or each player is down to one Small fragment, in the same places.       *)

\* tick lengths explored (ms)
RamDts == {60}

\* how far to the right of Blue's old place Red's ship is
RamOffsets == {0, 3 * U, 40 * U}

\* what is left of the grace timer of Red's ship (ms)
RamGrace == {0, 120}

\* Blue's fleet and the size of Red's ship
RamFleets == { <<ShipMed, ShipMed, ShipLarge>>, <<ShipSmall, ShipSmall>> }

InitRam ==
  /\ mode = "Versus"
  /\ level = 1
  /\ levelTransitionMs = 0
  /\ menuAnimationMs = 0
  /\ screenShakeAmount = 0
  /\ explosions = <<>>
  /\ ship = InitShip
  /\ baseAsteroidSizes = <<SizeBig>>
  /\ asteroids = <<Asteroid(centerX, 17 * U, 0, 0, SizeBig)>>
  /\ dt \in RamDts
  /\ \E off \in RamOffsets, grace \in RamGrace, fleet \in RamFleets :
       players =
         << [NewPlayer("Blue") EXCEPT
               !.ships =
                  IF Len(fleet) = 3
                  THEN << [fragment(spawnX("Blue") - 2 * fleet[1], WorldH \div 2, fleet[1])
                             EXCEPT !.invincibleMs = dt],
                          [fragment(spawnX("Blue") + 2 * fleet[2], WorldH \div 2, fleet[2])
                             EXCEPT !.invincibleMs = dt] >>
                  ELSE << [fragment(spawnX("Blue"), WorldH \div 2, fleet[1])
                             EXCEPT !.invincibleMs = dt] >>],
            [NewPlayer("Red") EXCEPT
               !.score = scoreForShip(ShipLarge),
               !.ships = << [fragment(spawnX("Blue") + off, WorldH \div 2, fleet[Len(fleet)])
                               EXCEPT !.invincibleMs = grace] >>] >>
  /\ ticks = 0
  /\ inputsUsed = 0
  /\ games = 1
  /\ ev = EvNone
  /\ probe = ProbeIdle
  /\ loop = LoopIdle

NextRam == VersusTick

SpecRam == InitRam /\ [][NextRam]_vars

----------------------------------------------------------------------------
(* The single-player game with a clock of simulated gameplay time, for the *)
(* claim about the time between two losses of a life.  `probe` holds the   *)
(* clock: the gameplay time since the last loss (-1 before the first one)  *)
(* and since the game started, and, after a tick that took a life, what    *)
(* the two read when it was taken.  Blackout and menu ticks do not count.  *)
(* The game is followed from the start of the program, and from the tick   *)
(* in which a Big asteroid crossing the centre took the first life while a *)
(* second one, slower, is on its way to the centre.                        *)

\* tick lengths explored from the start of the program (ms)
LivesDts == {300, 2000}

\* tick lengths explored from the first loss of a life (ms)
LivesLossDts == {1000}

\* the clock stops counting here (ms)
LivesClockCap == 5000

\* the clock before the first game
LivesClockIdle ==
  [fn |-> "update", sinceLoss |-> -1, sinceStart |-> 0, gapLoss |-> 0, gapStart |-> 0]

\* the clock after a Playing tick of length d that took a life or did not
tickLivesClock(c, d, died) ==
  LET loss == IF c.sinceLoss < 0 THEN -1 ELSE Min(c.sinceLoss + d, LivesClockCap)
      start == Min(c.sinceStart + d, LivesClockCap)
  IN [c EXCEPT !.sinceLoss = IF died THEN 0 ELSE loss,
               !.sinceStart = start,
               !.gapLoss = IF died THEN loss ELSE 0,
               !.gapStart = IF died THEN start ELSE 0]

InitLives ==
  /\ level = 1
  /\ levelTransitionMs = 0
  /\ menuAnimationMs = 0
  /\ explosions = <<>>
  /\ players = <<>>
  /\ ticks = 0
  /\ inputsUsed = 0
  /\ ev = EvNone
  /\ loop = LoopIdle
  /\ \/ /\ mode = "Menu"
        /\ screenShakeAmount = 0
        /\ ship = InitShip
        /\ baseAsteroidSizes \in Templates
        /\ asteroids = MapSeq(baseAsteroidSizes, LAMBDA s : Asteroid(20 * U, 20 * U, 2, 2, s))
        /\ dt \in LivesDts
        /\ games = 0
        /\ probe = LivesClockIdle
     \/ /\ mode = "Playing"
        /\ screenShakeAmount = 1000000
        /\ ship = killShip([startNewGame(InitShip, <<>>).ship EXCEPT !.invincibleMs = 0,
                                                                   !.fireCooldownMs = 0])
        /\ baseAsteroidSizes = <<SizeBig, SizeBig>>
        /\ asteroids = << Asteroid(centerX + 5 * U, centerY, 2, 0, SizeBig),
                          Asteroid(centerX - 21 * U, centerY, 1, 0, SizeBig) >>
        /\ dt \in LivesLossDts
        /\ games = 1
        /\ probe = [LivesClockIdle EXCEPT !.sinceLoss = 0, !.sinceStart = LivesClockCap]

\* a menu tick with at most one pad connected
LivesMenuTick ==
  /\ menuAnimationMs < MaxMenuTicks * dt
  /\ \E count \in {0, 1}, anyEdge \in BOOLEAN, singleEdge \in BOOLEAN :
       /\ EdgesPossible(count, anyEdge, singleEdge)
       /\ updateMenu(count, anyEdge, singleEdge)
  /\ probe' = IF mode' = "Playing" THEN [probe EXCEPT !.sinceStart = 0, !.gapLoss = 0,
                                                       !.gapStart = 0]
              ELSE probe
  /\ UNCHANGED loop

LivesPlayingTick ==
  /\ updatePlaying
  /\ probe' = tickLivesClock(probe, dt, ev'.died)
  /\ UNCHANGED loop

NextLives == LivesMenuTick \/ BlackoutTick \/ LivesPlayingTick

SpecLives == InitLives /\ [][NextLives]_vars

----------------------------------------------------------------------------
(* A single-player level transition near its end, for the claim about the  *)
(* bullets in flight.  The ship fired twice; the first bullet destroyed    *)
(* the last asteroid, a Small one, and the second was still in flight when *)
(* the blackout began; the countdown has one or two ticks left to run.     *)

\* tick lengths explored (ms)
BlackoutDts == {300}

\* what is left of the level-transition countdown (ms)
BlackoutLeft == {300, 600}

\* gameplay ticks explored from there
MaxBlackoutTicks == 4

InitBlackout ==
  /\ mode = "Playing"
  /\ level = 1
  /\ levelTransitionMs \in BlackoutLeft
  /\ menuAnimationMs = 0
  /\ screenShakeAmount = 0
  /\ explosions = <<>>
  /\ dt \in BlackoutDts
  /\ ship = [InitShip EXCEPT
               !.x = centerX, !.y = centerY, !.angle = 90,
               !.score = (SizeSmall \div U) * 10,
               !.fireCooldownMs = fireCooldownReset,
               !.bullets = << [Bullet(centerX, 87 * U, 0, bulletStep(dt))
                                 EXCEPT !.ttlMs = bulletTtlMs - dt] >>]
  /\ baseAsteroidSizes = <<SizeSmall>>
  /\ asteroids = <<>>
  /\ players = <<>>
  /\ ticks = MaxTicks - MaxBlackoutTicks
  /\ inputsUsed = 0
  /\ games = 1
  /\ ev = EvNone
  /\ probe = ProbeIdle
  /\ loop = LoopIdle

NextBlackout == BlackoutTick \/ PlayingTick

SpecBlackout == InitBlackout /\ [][NextBlackout]_vars

----------------------------------------------------------------------------
(* util.ts called on its own: wrapWithMargin and wrapDelta on arguments     *)
(* drawn from small ranges.  Spans are even, so that span / 2 is a whole    *)
(* number, as it is for the world's width and height in model units.        *)

MaxValue == 12
MaxExtent == 4
MaxMargin == 2
MaxPoint == 6
MaxHalfSpan == 3
MaxApplications == 2

InitUtil ==
  /\ mode = "Menu"
  /\ level = 1
  /\ levelTransitionMs = 0
  /\ menuAnimationMs = 0
  /\ screenShakeAmount = 0
  /\ explosions = <<>>
  /\ ship = InitShip
  /\ baseAsteroidSizes = <<>>
  /\ asteroids = <<>>
  /\ players = <<>>
  /\ dt = 0
  /\ ticks = 0
  /\ inputsUsed = 0
  /\ games = 0
  /\ ev = EvNone
  /\ \/ \E value \in -MaxValue..MaxValue, max \in 1..MaxExtent, margin \in 0..MaxMargin :
          probe = [fn |-> "wrapWithMargin", value |-> value, max |-> max,
                   margin |-> margin, outs |-> <<>>]
     \/ \E a \in -MaxPoint..MaxPoint, b \in -MaxPoint..MaxPoint, h \in 1..MaxHalfSpan :
          probe = [fn |-> "wrapDelta", a |-> a, b |-> b, span |-> 2 * h, outs |-> <<>>]
  /\ loop = LoopIdle

\* wrapWithMargin applied to the value, then to its own result
WrapProbe ==
  /\ probe.fn = "wrapWithMargin"
  /\ Len(probe.outs) < MaxApplications
  /\ probe' = [probe EXCEPT !.outs =
                  Append(@, wrapWithMargin(IF @ = <<>> THEN probe.value ELSE @[Len(@)],
                                           probe.max, probe.margin))]
  /\ UNCHANGED <<gameVars, loop>>

\* wrapDelta applied to a - b and to b - a
DeltaProbe ==
  /\ probe.fn = "wrapDelta"
  /\ probe.outs = <<>>
  /\ probe' = [probe EXCEPT !.outs = << wrapDelta(probe.a - probe.b, probe.span),
                                        wrapDelta(probe.b - probe.a, probe.span) >>]
  /\ UNCHANGED <<gameVars, loop>>

NextUtil == WrapProbe \/ DeltaProbe

SpecUtil == InitUtil /\ [][NextUtil]_vars

----------------------------------------------------------------------------
(* gameLoop, lines 1201-1221, one step per call of update.  Its clock is   *)
(* counted in sixths of a millisecond, which makes the tick of 1000 / 240  *)
(* ms a whole number; the game itself advances by dt per call, as in Spec. *)
(* With a pad connected the frames are a little over two ticks long and    *)
(* presses arrive between them; short, stalled and backward frames are explored with no   *)
(* pad connected, where the game stays in the menu.  The short tick is     *)
(* explored with the field of one Small asteroid only.                     *)

\* line 1203: 100 ms
maxDt == 600
\* line 1215: 1000 / physicsHz ms
physicsTickMs == 25

\* measured frame times: the clock stepping back, less than a tick, two
\* ticks, and a stall longer than maxDt
LoopElapsed == {-30, 20, 2 * physicsTickMs, maxDt + 100}
PadElapsed == {2 * physicsTickMs + 5}
MaxFrames == 16
\* frames explored with no pad connected
MaxStallFrames == 5
MaxPresses == 2
\* menu ticks explored with no pad connected
MaxStallTicks == 150

\* seeded fault for C22: the measured time is added as it is
frameDtUnclamped(elapsed) == elapsed

\* seeded fault for C23: a measured time below 0 is taken as 0
frameDtNonNegative(elapsed) ==
  IF elapsed < 0 THEN 0 ELSE IF elapsed < maxDt THEN elapsed ELSE maxDt

\* line 1204: Math.min(now - lastFrameTime, maxDt)
frameDt(elapsed) == IF elapsed < maxDt THEN elapsed ELSE maxDt

\* seeded fault for C21: the edge state is left as it is
clearInputsNever(l) == l

\* gamepads.clearInputs()
clearInputs(l) == [l EXCEPT !.anyEdge = FALSE, !.singleEdge = FALSE]

\* gameLoop after one pass of its while loop (lines 1217-1220): the tick is
\* taken off the accumulator and update has run, ending in clearInputs
afterUpdate(l, started) ==
  [clearInputs(l) EXCEPT !.timeToProcessPhysics = @ - physicsTickMs,
                         !.calls = @ + 1,
                         !.dtArg = physicsTickMs,
                         !.sawAt = IF l.anyEdge THEN l.calls + 1 ELSE @,
                         !.starts = IF started THEN @ + 1 ELSE @]

\* the while condition of line 1217
tickDue == loop.pc = "ticks" /\ loop.timeToProcessPhysics > physicsTickMs

InitLoop ==
  /\ mode = "Menu"
  /\ level = 1
  /\ levelTransitionMs = 0
  /\ menuAnimationMs = 0
  /\ screenShakeAmount = 0
  /\ explosions = <<>>
  /\ ship = InitShip
  /\ baseAsteroidSizes \in Templates
  /\ asteroids = MapSeq(baseAsteroidSizes, LAMBDA s : Asteroid(20 * U, 20 * U, 2, 2, s))
  /\ players = <<>>
  /\ dt \in Dts
  /\ dt < 1000 => baseAsteroidSizes = <<SizeSmall>>
  /\ ticks = 0
  /\ inputsUsed = 0
  /\ games = 0
  /\ ev = EvNone
  /\ probe = ProbeIdle
  /\ \E count \in PlayerCounts : loop = [LoopIdle EXCEPT !.count = count]

\* lines 1202-1213: a frame starts; a confirm press may have arrived since
\* the last one, on the single player's pad or on the other pad
GameLoopFrame ==
  /\ loop.pc = "idle"
  /\ loop.frames < (IF loop.count = 0 THEN MaxStallFrames ELSE MaxFrames)
  /\ \E elapsed \in (IF loop.count = 0 THEN LoopElapsed ELSE PadElapsed),
        press \in {"none", "single", "other"} :
       /\ press # "none" => loop.count > 0 /\ loop.presses < MaxPresses
       /\ press = "other" => loop.count >= 2
       /\ loop' = [loop EXCEPT !.pc = "ticks",
                               !.frames = @ + 1,
                               !.elapsed = elapsed,
                               !.before = loop.timeToProcessPhysics,
                               !.timeToProcessPhysics = @ + frameDt(elapsed),
                               !.calls = 0,
                               !.sawAt = 0,
                               !.anyEdge = @ \/ press # "none",
                               !.singleEdge = @ \/ press = "single",
                               !.presses = IF press # "none" THEN @ + 1 ELSE @]
  /\ UNCHANGED <<gameVars, probe>>

MenuCall ==
  /\ tickDue
  /\ menuAnimationMs < (IF loop.count = 0 THEN MaxStallTicks ELSE MaxMenuTicks) * dt
  /\ updateMenu(loop.count, loop.anyEdge, loop.singleEdge)
  /\ loop' = afterUpdate(loop, MenuChoice(loop.count, loop.anyEdge, loop.singleEdge) # "Menu")
  /\ UNCHANGED probe

BlackoutCall ==
  /\ tickDue
  /\ updateBlackout
  /\ loop' = afterUpdate(loop, FALSE)
  /\ UNCHANGED probe

PlayingCall ==
  /\ tickDue
  /\ updatePlaying
  /\ loop' = afterUpdate(loop, FALSE)
  /\ UNCHANGED probe

VersusCall ==
  /\ tickDue
  /\ updateVersus
  /\ loop' = afterUpdate(loop, FALSE)
  /\ UNCHANGED probe

\* line 1224: the while loop has ended and the frame is drawn
GameLoopDraw ==
  /\ loop.pc = "ticks"
  /\ ~tickDue
  /\ loop' = [loop EXCEPT !.pc = "idle"]
  /\ UNCHANGED <<gameVars, probe>>

NextLoop ==
  GameLoopFrame \/ MenuCall \/ BlackoutCall \/ PlayingCall \/ VersusCall \/ GameLoopDraw

SpecLoop == InitLoop /\ [][NextLoop]_vars

----------------------------------------------------------------------------
(* Properties.  ev.pre is the state the last tick started from, ev what it  *)
(* did; the other variables are the state it left.                          *)

\* the changes of mode the specification allows
AllowedModeChanges ==
  { <<"Menu", "Playing">>, <<"Menu", "Versus">>, <<"Playing", "Menu">>, <<"Versus", "Menu">> }

\* C1: every change of mode made by one tick is Menu->Playing, Menu->Versus,
\* Playing->Menu or Versus->Menu, and a tick that starts inside a level
\* transition (levelTransitionMs > 0) leaves the mode as it was.
C1_ModeTransitions ==
  /\ mode # ev.pre.mode => <<ev.pre.mode, mode>> \in AllowedModeChanges
  /\ ev.pre.lt > 0 => mode = ev.pre.mode

\* a Versus round that ended: a tick changed the mode from Versus to Menu
C1_Witness == ev.kind = "versus" /\ ev.pre.mode = "Versus" /\ mode = "Menu"

\* C2: a single-player tick ends in Menu iff lives went from 1 to 0 in it;
\* lives stays within 0..5, and a state in mode Playing has lives >= 1.
C2_GameOverExact ==
  /\ ev.kind \in {"playing", "blackout"} =>
       ((mode = "Menu") <=> (ev.pre.lives = 1 /\ ship.lives = 0))
  /\ ship.lives \in 0..startLives
  /\ mode = "Playing" => ship.lives >= 1

\* the last life lost: the tick took lives from 1 to 0 and left Menu
C2_Witness == ev.kind = "playing" /\ ev.pre.lives = 1 /\ ship.lives = 0 /\ mode = "Menu"

\* player i lost its last fragment in the last tick
wipedOut(i) == ev.pre.frags[i] > 0 /\ Len(players[i].ships) = 0

\* exactly one player lost its last fragment in the last tick, the other has some left
oneSideOut ==
  \/ wipedOut(1) /\ Len(players[2].ships) > 0
  \/ wipedOut(2) /\ Len(players[1].ships) > 0

\* C3 as stated: a Versus tick ends in Menu iff in that tick exactly one
\* player's fragment count reaches zero while the other player has a fragment left.
C3_AsStated == ev.kind = "versus" => ((mode = "Menu") <=> oneSideOut)

\* C3, amended: a Versus tick ends in Menu iff it leaves levelTransitionMs at 0
\* and exactly one player without fragments; a player wiped out while a level
\* transition is running does not end the round.
C3_RoundEndExact ==
  ev.kind = "versus" =>
    ((mode = "Menu") <=>
       (levelTransitionMs <= 0 /\ (Len(players[1].ships) = 0) # (Len(players[2].ships) = 0)))

\* a round decided: Red lost its last fragment, Blue has one, the mode is Menu
C3_Witness ==
  /\ ev.kind = "versus"
  /\ mode = "Menu"
  /\ wipedOut(2)
  /\ Len(players[1].ships) > 0

\* C4: a Versus tick that leaves both players without fragments, or both with
\* at least one, leaves the mode Versus.
C4_NoDecision ==
  ev.kind = "versus" /\ (Len(players[1].ships) = 0) = (Len(players[2].ships) = 0)
    => mode = "Versus"

\* both fleets wiped out in one tick
C4_Witness == ev.kind = "versus" /\ wipedOut(1) /\ wipedOut(2)

\* no score is lower than before the last tick
scoresKept ==
  /\ ship.score >= ev.pre.score
  /\ Len(players) = Len(ev.pre.scores)
  /\ \A i \in 1..Len(players) : players[i].score >= ev.pre.scores[i]

\* C5 as stated: over any ticks, starting a new game or a new round included,
\* neither the ship's score nor a Versus player's score decreases.
C5_AsStated ==
  /\ ship.score >= ev.pre.score
  /\ \A i \in 1..Len(players) : i <= Len(ev.pre.scores) => players[i].score >= ev.pre.scores[i]

\* C5, amended: a tick of a game or round never lowers a score; the tick that
\* starts a game sets the ship's score to 0 and the tick that starts a Versus
\* round creates both players with score 0.
C5_ScoreMonotoneInGame ==
  /\ ev.kind \in {"playing", "blackout", "versus"} => scoresKept
  /\ ev.kind = "menu" /\ mode = "Menu" => scoresKept
  /\ ev.kind = "menu" /\ mode = "Playing" => ship.score = 0
  /\ ev.kind = "menu" /\ mode = "Versus" =>
       /\ ship.score = ev.pre.score
       /\ \A i \in 1..Len(players) : players[i].score = 0

\* a Versus player scored in the last tick
C5_Witness ==
  /\ ev.kind = "versus"
  /\ \E i \in 1..Len(players) : players[i].score > ev.pre.scores[i]

\* C6: in one tick, every Big or Medium asteroid destroyed is removed once and
\* adds exactly 2 children, whatever the number of bullets; a Small one adds none.
C6_SplitConservation ==
  ev.kind \in {"playing", "versus"} => ev.kids = 2 * Cardinality(ev.removed)

\* the bullets the last tick matched with a target: <<owner, index in ev.bs[owner]>>
struckBullets ==
  [k \in 1..Len(ev.hits) |-> <<ev.hits[k][1], ev.hits[k][2]>>] \o
  [k \in 1..Len(ev.shipHits) |-> <<ev.shipHits[k][1], ev.shipHits[k][2]>>]

\* the bullets owner w has left after the last tick
bulletsLeft(w) == IF ev.kind = "playing" THEN ship.bullets ELSE players[w].bullets

\* C7: a bullet hits at most one target per tick: no bullet is matched twice
\* (asteroid or ship), every asteroid hit is the first asteroid in collection
\* order that the bullet overlaps and that is not decaying when its turn comes,
\* and every matched bullet is gone from its owner's list.
C7_OneTargetPerBullet ==
  ev.kind \in {"playing", "versus"} =>
    /\ \A j, k \in 1..Len(struckBullets) : j # k => struckBullets[j] # struckBullets[k]
    /\ \A k \in 1..Len(ev.hits) :
         LET b == ev.bs[ev.hits[k][1]][ev.hits[k][2]]
             h == ev.hits[k][3]
         IN /\ ~ev.asts[h].dying
            /\ bulletHitsAsteroidRadius(b, ev.asts[h])
            /\ \A j \in 1..(h - 1) :
                 bulletHitsAsteroidRadius(b, ev.asts[j]) =>
                   \/ ev.asts[j].dying
                   \/ /\ ev.asts[j].size = SizeSmall
                      /\ \E m \in 1..(k - 1) : ev.hits[m][3] = j
    /\ \A w \in 1..Len(ev.bs) :
         Len(bulletsLeft(w)) + Cardinality({k \in 1..Len(struckBullets) : struckBullets[k][1] = w})
           <= Len(ev.bs[w])

\* a bullet that overlapped two live asteroids and was matched with one
C7_Witness ==
  /\ ev.kind = "playing"
  /\ \E k \in 1..Len(ev.hits) :
       \E j \in 1..Len(ev.asts) :
          /\ j # ev.hits[k][3]
          /\ ~ev.asts[j].dying
          /\ bulletHitsAsteroidRadius(ev.bs[ev.hits[k][1]][ev.hits[k][2]], ev.asts[j])

\* no live asteroid within asteroid.size + 1.5 * ship.size (wrapped) of (x, y)
clearOfAsteroids(x, y) ==
  \A i \in 1..Len(asteroids) :
     \/ asteroids[i].dying
     \/ 4 * (Sq(wrapDelta(x - asteroids[i].x, WorldW)) + Sq(wrapDelta(y - asteroids[i].y, WorldH)))
          > Sq(2 * asteroids[i].size + 3 * shipSize)

\* C8: a tick that relocates the single-player ship (respawn, start of a game,
\* start of the next level) puts it where no live asteroid is within
\* asteroid.size + 1.5 * ship.size.
C8_RespawnSafety == ev.relocated => clearOfAsteroids(ship.x, ship.y)

\* a respawn after a death, with an asteroid left on the field
C8_Witness ==
  /\ ev.kind = "playing"
  /\ ev.relocated
  /\ ship.lives < startLives
  /\ Len(asteroids) > 0

\* C9: the ship is never respawning (respawnMs > 0) and invincible
\* (invincibleMs > 0) at once; both timers stay >= 0.
C9_StatusExclusive ==
  /\ ship.respawnMs >= 0
  /\ ship.invincibleMs >= 0
  /\ ~(ship.respawnMs > 0 /\ ship.invincibleMs > 0)

\* the respawn put off because the centre was not safe: still respawning
C9_Witness == ev.retried /\ ship.respawnMs > 0 /\ ship.invincibleMs = 0

\* C10: a Menu tick changes the mode only on a confirm edge: with 2 or more
\* controllers it enters Versus, with exactly 1 Playing; with 0 controllers or
\* without the edge it stays Menu; with 2 or more Playing is never entered.
C10_MenuConfirm ==
  ev.kind = "menu" =>
    /\ mode # "Menu" => ev.anyEdge
    /\ ev.count >= 2 /\ ev.anyEdge => mode = "Versus"
    /\ ev.count = 1 /\ ev.anyEdge => mode = "Playing"
    /\ ev.count = 0 \/ ~ev.anyEdge => mode = "Menu"
    /\ ev.count >= 2 => mode # "Playing"

\* two controllers, the confirm edge on both readings: Versus is entered
C10_Witness ==
  /\ ev.kind = "menu"
  /\ ev.count >= 2
  /\ ev.anyEdge
  /\ ev.singleEdge
  /\ mode = "Versus"

\* the field the last tick left after its rebuild was empty and no transition ran
transitionStarted == ev.kind \in {"playing", "versus"} /\ ev.fieldLen = 0 /\ ev.pre.lt <= 0

\* the countdown the last tick ran down: the one it found, or the one it started
clockOfTick == IF transitionStarted THEN levelTransitionDurationMs ELSE ev.pre.lt

\* the last tick ran a countdown down to 0
transitionExpired ==
  /\ ev.kind \in {"blackout", "versus"}
  /\ clockOfTick > 0
  /\ levelTransitionMs = 0

\* the field is a fresh seed of the level: the template sizes, then two Big
\* asteroids per level above 1, none of them decaying
freshSeed ==
  /\ Len(asteroids) = Len(baseAsteroidSizes) + 2 * (level - 1)
  /\ \A i \in 1..Len(asteroids) :
        /\ ~asteroids[i].dying
        /\ asteroids[i].size = IF i <= Len(baseAsteroidSizes) THEN baseAsteroidSizes[i]
                                ELSE SizeBig

\* C11: a level transition starts in the tick that leaves the field empty while
\* none is running (levelTransitionMs := 2000; a Versus tick takes its own dt
\* off at once), every later tick takes dt off, and the tick that reaches 0
\* adds exactly 1 to level and reseeds; level is >= 1 and changes at no other
\* time, except that entering Playing or Versus sets it to 1.
C11_LevelTransition ==
  /\ level >= 1
  /\ levelTransitionMs \in 0..levelTransitionDurationMs
  /\ ev.kind = "playing" => levelTransitionMs = clockOfTick
  /\ ev.kind \in {"blackout", "versus"} => levelTransitionMs = Max(0, clockOfTick - dt)
  /\ ev.kind = "menu" => levelTransitionMs = IF mode = "Versus" THEN 0 ELSE ev.pre.lt
  /\ level = IF ev.kind = "menu" /\ mode # "Menu" THEN 1
             ELSE IF transitionExpired THEN ev.pre.level + 1
             ELSE ev.pre.level
  /\ transitionExpired => freshSeed

\* a single-player transition that expired: level went up and the field is back
C11_Witness ==
  /\ ev.kind = "blackout"
  /\ level = ev.pre.level + 1
  /\ levelTransitionMs = 0
  /\ Len(asteroids) > 0

\* the sparks the last tick found, aged by dt, the expired ones retired
agedSparks == SelectSeq([i \in 1..Len(ev.pre.explosions) |-> ev.pre.explosions[i] - dt],
                        LAMBDA l : l > 0)

\* the last tick aged and retired the sparks it found, added only the bursts
\* it spawned, and eased the camera shake unless a burst set it anew
backgroundDecayRan ==
  /\ Len(explosions) = Len(agedSparks) + ev.bursts
  /\ SubSeq(explosions, 1, Len(agedSparks)) = agedSparks
  /\ ev.bursts = 0 => /\ screenShakeAmount <= ev.pre.shake
                      /\ ev.pre.shake > 0 => screenShakeAmount < ev.pre.shake

\* C12 as stated: in every tick that starts with levelTransitionMs > 0, in
\* Playing as well as in Versus, the sparks are aged and retired and the
\* camera shake is eased toward 0.
C12_AsStated ==
  ev.kind \in {"blackout", "versus"} /\ ev.pre.lt > 0 => backgroundDecayRan

\* C12, amended: a Versus tick that starts with levelTransitionMs > 0 ages and
\* retires the sparks and eases the camera shake; a single-player tick that
\* starts with levelTransitionMs > 0 leaves explosions and screenShakeAmount
\* exactly as they were.
C12_DecayByMode ==
  /\ ev.kind = "versus" /\ ev.pre.lt > 0 => backgroundDecayRan
  /\ ev.kind = "blackout" =>
       /\ explosions = ev.pre.explosions
       /\ screenShakeAmount = ev.pre.shake

\* a single-player blackout tick with a spark that was due to retire, and a
\* shake that was due to ease, both still there
C12_Witness ==
  /\ ev.kind = "blackout"
  /\ Len(explosions) > Len(agedSparks)
  /\ screenShakeAmount > 0

\* position, velocity and size of the fragments of a fleet
hulls(ships) ==
  [i \in 1..Len(ships) |-> <<ships[i].x, ships[i].y, ships[i].dx, ships[i].dy, ships[i].size>>]

\* the last tick left positions, velocities, bullets, scores, lives and fleets alone
gameplayFrozen ==
  /\ <<ship.x, ship.y, ship.dx, ship.dy, ship.bullets, ship.score, ship.lives>>
       = <<ev.pre.ship.x, ev.pre.ship.y, ev.pre.ship.dx, ev.pre.ship.dy,
           ev.pre.ship.bullets, ev.pre.ship.score, ev.pre.ship.lives>>
  /\ Len(players) = Len(ev.pre.players)
  /\ \A i \in 1..Len(players) :
        /\ hulls(players[i].ships) = hulls(ev.pre.players[i].ships)
        /\ players[i].bullets = ev.pre.players[i].bullets
        /\ players[i].score = ev.pre.players[i].score

C14_NewGameState ==
  ev.kind = "menu" /\ mode = "Playing" =>
    /\ ship.score = 0
    /\ ship.lives = 5
    /\ ship.x = WorldW \div 2
    /\ ship.y = WorldH \div 2
    /\ ship.dx = 0
    /\ ship.dy = 0
    /\ ship.angle = -90
    /\ ship.bullets = <<>>
    /\ ship.invincibleMs > 0
    /\ ship.respawnMs = 0
    /\ level = 1
    /\ players = <<>>
    /\ explosions = <<>>
    /\ freshSeed

\* a new game started after a game over: the lives were 0 and are 5 again
C14_Witness ==
  /\ ev.kind = "menu"
  /\ mode = "Playing"
  /\ ev.pre.ship.lives = 0
  /\ ship.lives = 5

\* C15: the Menu tick that enters Versus leaves level 1, levelTransitionMs 0,
\* no explosions, no camera shake, exactly two players, Blue at 25% and Red at
\* 75% of the world width, both at 50% of its height, each with score 0, no
\* bullets and exactly one Large fragment at rest with a 2000 ms grace timer,
\* and a fresh level-1 field.
C15_NewRoundState ==
  ev.kind = "menu" /\ mode = "Versus" =>
    /\ level = 1
    /\ levelTransitionMs = 0
    /\ explosions = <<>>
    /\ screenShakeAmount = 0
    /\ Len(players) = 2
    /\ players[1].color = "Blue"
    /\ players[2].color = "Red"
    /\ 4 * players[1].ships[1].x = WorldW
    /\ 4 * players[2].ships[1].x = 3 * WorldW
    /\ \A i \in 1..2 :
          /\ players[i].score = 0
          /\ players[i].bullets = <<>>
          /\ Len(players[i].ships) = 1
          /\ 2 * players[i].ships[1].y = WorldH
          /\ players[i].ships[1].dx = 0
          /\ players[i].ships[1].dy = 0
          /\ players[i].ships[1].size = ShipLarge
          /\ players[i].ships[1].invincibleMs = 2000
    /\ freshSeed

\* a second round: the players of the round before had scored and lost fragments
C15_Witness ==
  /\ ev.kind = "menu"
  /\ mode = "Versus"
  /\ Len(ev.pre.players) = 2
  /\ \E i \in 1..2 : ev.pre.players[i].score > 0
  /\ \E i \in 1..2 : Len(ev.pre.players[i].ships) = 0

\* the ship hits of the last tick, as a set
shipHitsOfTick == {ev.shipHits[k] : k \in 1..Len(ev.shipHits)}

\* what player i earned in the last tick: its asteroid hits and its ship hits
earnedBy(i) ==
  SumSeq([k \in 1..Len(ev.hits) |->
            IF ev.hits[k][1] = i
            THEN (IF ev.asts[ev.hits[k][3]].size = SizeBig THEN 20
                  ELSE IF ev.asts[ev.hits[k][3]].size = SizeMed THEN 50 ELSE 100)
            ELSE 0])
  + SumSeq([k \in 1..Len(ev.shipHits) |->
              IF ev.shipHits[k][1] = i
              THEN (IF ev.shipHits[k][3] = ShipLarge THEN 40
                    ELSE IF ev.shipHits[k][3] = ShipMed THEN 100 ELSE 200)
              ELSE 0])

\* a bullet of player i lies inside a vulnerable fragment of player i
ownBulletInOwnHull(i) ==
  \E k \in 1..Len(players[i].bullets), si \in 1..Len(players[i].ships) :
     /\ players[i].ships[si].invincibleMs = 0
     /\ pointInPolygon(players[i].bullets[k].x, players[i].bullets[k].y,
                       transformPoints(shipVerts(players[i].ships[si].size), players[i].angle,
                                       players[i].ships[si].x, players[i].ships[si].y))

\* C16: in a Versus tick every fragment hit by a bullet belongs to the other
\* player and has invincibleMs = 0; a player whose fragments were hit by no
\* bullet of the other player and by no asteroid or ship keeps its fleet; and
\* a player's score grows by exactly its asteroid hits and its hits on the
\* other player's fragments.
C16_NoFriendlyFire ==
  ev.kind = "versus" =>
    /\ \A h \in shipHitsOfTick : h[4] # h[1] /\ h[5] = 0
    /\ \A i \in 1..Len(players) :
          /\ players[i].score = ev.pre.players[i].score + earnedBy(i)
          /\ (ev.crashes = 0 /\ ~transitionExpired /\ \A h \in shipHitsOfTick : h[4] # i)
               => Len(players[i].ships) = Len(ev.pre.players[i].ships)

\* Blue's bullet lies inside Blue's vulnerable sibling fragment, and the tick
\* left Blue's fleet and score as they were
C16_Witness ==
  /\ ev.kind = "versus"
  /\ ownBulletInOwnHull(1)
  /\ Len(players[1].ships) = Len(ev.pre.players[1].ships)
  /\ players[1].score = ev.pre.players[1].score

\* two fragments whose circles overlap, in the plain coordinates tryPlace measures in
circlesOverlap(f, g) == Sq(f.x - g.x) + Sq(f.y - g.y) < Sq(f.size + g.size)

\* C17: every destruction of a Versus fragment either removes it and places
\* nothing (count - 1), or, for a Large or Medium one, replaces it by exactly
\* two fragments of the next-smaller size that overlap neither each other nor
\* any other fragment of that player (count + 1); a Small one is always
\* removed; the count is never left as it was.
C17_SplitOutcomes ==
  \A k \in 1..Len(ev.splits) :
    LET before == ev.splits[k][1]
        i == ev.splits[k][2]
        after == ev.splits[k][3]
        rest == SubSeq(before, 1, i - 1) \o SubSeq(before, i + 1, Len(before))
        small == IF before[i].size = ShipLarge THEN ShipMed ELSE ShipSmall
    IN \/ after = rest
       \/ /\ before[i].size \in {ShipLarge, ShipMed}
          /\ Len(after) = Len(before) + 1
          /\ SubSeq(after, 1, i - 1) \o SubSeq(after, i + 2, Len(after)) = rest
          /\ after[i].size = small
          /\ after[i + 1].size = small
          /\ \A m \in {i, i + 1}, n \in 1..Len(after) :
                m # n => ~circlesOverlap(after[m], after[n])

\* a Medium fragment with a sibling beside it was split into two Small ones
C17_Witness ==
  \E k \in 1..Len(ev.splits) :
     /\ Len(ev.splits[k][1]) >= 2
     /\ ev.splits[k][1][ev.splits[k][2]].size = ShipMed
     /\ Len(ev.splits[k][3]) = Len(ev.splits[k][1]) + 1

\* C18: after every tick, in every mode, every spark in explosions has a
\* remaining life above 0, the sparks of the bursts of that tick included.
C18_SparksAlive == \A i \in 1..Len(explosions) : explosions[i] > 0

\* a tick that retired a spark and whose own burst is in the collection
C18_Witness ==
  /\ ev.kind \in {"playing", "versus"}
  /\ ev.bursts > 0
  /\ Len(agedSparks) < Len(ev.pre.explosions)
  /\ Len(explosions) >= ev.bursts

\* C19: for every value, negative ones included, every max > 0 and every
\* margin >= 0, wrapWithMargin(value, max, margin) is at least -margin and
\* below max + margin, differs from value by a multiple of max + 2 * margin,
\* and is returned unchanged by a second application.
C19_WrapWithMargin ==
  (probe.fn = "wrapWithMargin" /\ probe.outs # <<>>) =>
    LET total == probe.max + 2 * probe.margin
    IN /\ probe.outs[1] >= -probe.margin
       /\ probe.outs[1] < probe.max + probe.margin
       /\ (probe.outs[1] - probe.value) % total = 0
       /\ \A k \in 2..Len(probe.outs) : probe.outs[k] = probe.outs[1]

\* a value below -margin was wrapped, with a margin, and wrapped again
C19_Witness ==
  /\ probe.fn = "wrapWithMargin"
  /\ Len(probe.outs) >= 2
  /\ probe.margin > 0
  /\ probe.value < -probe.margin
  /\ probe.outs[1] # probe.value

\* a - b is an odd multiple of span / 2
oddHalfSpans(p) ==
  /\ (p.a - p.b) % (p.span \div 2) = 0
  /\ ((p.a - p.b) \div (p.span \div 2)) % 2 = 1

\* C20 as stated: wrapDelta(a - b, span) = -wrapDelta(b - a, span) for all
\* a, b and span > 0, odd multiples of span / 2 included, and its magnitude
\* is at most span / 2.
C20_AsStated ==
  (probe.fn = "wrapDelta" /\ probe.outs # <<>>) =>
    /\ probe.outs[1] = -probe.outs[2]
    /\ 2 * probe.outs[1] <= probe.span
    /\ -2 * probe.outs[1] <= probe.span

\* C20: wrapDelta(a - b, span) lies in [-span / 2, span / 2) and differs from
\* a - b by a multiple of span; it is the negation of wrapDelta(b - a, span)
\* unless a - b is an odd multiple of span / 2, where both are -span / 2.
C20_HalfOpenRange ==
  (probe.fn = "wrapDelta" /\ probe.outs # <<>>) =>
    /\ -2 * probe.outs[1] <= probe.span
    /\ 2 * probe.outs[1] < probe.span
    /\ (probe.outs[1] - (probe.a - probe.b)) % probe.span = 0
    /\ IF oddHalfSpans(probe)
         THEN probe.outs[1] = -(probe.span \div 2) /\ probe.outs[2] = probe.outs[1]
         ELSE probe.outs[1] = -probe.outs[2]

\* wrapDelta was applied to a difference of three half spans
C20_Witness ==
  /\ probe.fn = "wrapDelta"
  /\ probe.outs # <<>>
  /\ 2 * (probe.a - probe.b) = 3 * probe.span

\* C21: every call of update, whichever branch it takes, ends with the
\* edge-triggered input state cleared; so of the ticks of one frame only the
\* first can find a confirm press, and the presses that arrived are at least
\* as many as the changes of mode out of the menu.
C21_EdgesClearedByEveryTick ==
  /\ loop.calls > 0 => ~loop.anyEdge /\ ~loop.singleEdge
  /\ loop.sawAt <= 1
  /\ loop.starts <= loop.presses

\* the first tick of a frame found the press and left the menu, and a second
\* tick of the same frame has run
C21_Witness ==
  /\ loop.calls >= 2
  /\ loop.sawAt = 1
  /\ loop.starts = 1
  /\ mode \in {"Playing", "Versus"}
  /\ ev.kind \in {"playing", "versus"}

\* what the frame has added to the accumulator so far
addedThisFrame == loop.timeToProcessPhysics + loop.calls * physicsTickMs - loop.before

\* C22: a frame adds at most maxDt (100 ms) to the accumulator, update is
\* only called with dt equal to one fixed tick (1000 / 240 ms), the
\* accumulator is at most one tick when the frame's tick loop has ended, and
\* a frame runs at most maxDt / tick = 24 ticks however long it stalled.
C22_FixedTimestep ==
  /\ addedThisFrame <= maxDt
  /\ loop.calls > 0 => loop.dtArg = physicsTickMs
  /\ loop.pc = "idle" => loop.timeToProcessPhysics <= physicsTickMs
  /\ loop.calls <= maxDt \div physicsTickMs

\* a frame that stalled for longer than maxDt has run its 24 ticks
C22_Witness ==
  /\ loop.pc = "idle"
  /\ loop.elapsed > maxDt
  /\ loop.calls = maxDt \div physicsTickMs
  /\ loop.timeToProcessPhysics = physicsTickMs

\* C23 as stated: a frame whose measured time is negative runs no tick, does
\* not decrease the accumulator, and update is never called with dt <= 0.
C23_AsStated ==
  /\ loop.calls > 0 => loop.dtArg > 0
  /\ (loop.frames > 0 /\ loop.elapsed < 0) =>
       /\ loop.calls = 0
       /\ loop.timeToProcessPhysics >= loop.before

\* C23: a frame whose measured time is negative runs no tick and update is
\* never called with dt <= 0, but the negative time is added to the
\* accumulator, which the frame leaves lower than it found it.
C23_NegativeTimeAccumulates ==
  /\ loop.calls > 0 => loop.dtArg > 0
  /\ (loop.frames > 0 /\ loop.elapsed < 0) =>
       /\ loop.calls = 0
       /\ loop.timeToProcessPhysics = loop.before + loop.elapsed

\* a frame measured a negative time and left the accumulator below 0
C23_Witness ==
  /\ loop.pc = "idle"
  /\ loop.frames > 0
  /\ loop.elapsed < 0
  /\ loop.timeToProcessPhysics < 0

\* the last tick was a normal Playing tick in whose collision step the ship,
\* neither respawning nor invincible, had its centre or nose tip within the
\* radius of a live asteroid
shipWasStruck ==
  /\ ev.kind = "playing"
  /\ ev.atCollision.respawnMs <= 0
  /\ ev.atCollision.invincibleMs <= 0
  /\ \E i \in 1..Len(asteroids) : shipHitsAsteroid(ev.atCollision, asteroids[i])

\* what such a tick leaves whatever the number of lives: the ship at rest,
\* no bullets, one life fewer, and the ship's burst among the sparks
struckShipOutcome ==
  /\ ship.dx = 0
  /\ ship.dy = 0
  /\ ship.bullets = <<>>
  /\ ship.lives = ev.pre.lives - 1
  /\ ev.bursts = Len(ev.hits) + 1
  /\ Len(explosions) = Len(agedSparks)
                         + (IF dt < explosionDurationMsAsteroid THEN Len(ev.hits) ELSE 0)
                         + (IF dt < explosionDurationMsShip THEN 1 ELSE 0)
  /\ dt < explosionDurationMsShip =>
       explosions[Len(explosions)] = explosionDurationMsShip - dt

\* C24 as stated: such a tick ends with velocity (0,0), no bullets, lives one
\* lower, respawnMs = 2000 and one burst added; when lives was 1 it also ends
\* with lives = 0 and mode = Menu.
C24_AsStated ==
  shipWasStruck =>
    /\ struckShipOutcome
    /\ ship.respawnMs = respawnDelayMs
    /\ ev.pre.lives = 1 => ship.lives = 0 /\ mode = "Menu"

\* C24: such a tick ends with velocity (0,0), no bullets, lives one lower and
\* one burst added; when a life is left it ends with respawnMs = 2000 and
\* the mode still Playing; when lives was 1 it ends with lives = 0, mode =
\* Menu, menuAnimationMs = 0 and respawnMs = 0.
C24_ShipStruck ==
  shipWasStruck =>
    /\ struckShipOutcome
    /\ ship.invincibleMs = 0
    /\ IF ev.pre.lives = 1
       THEN ship.lives = 0 /\ mode = "Menu" /\ menuAnimationMs = 0 /\ ship.respawnMs = 0
       ELSE mode = "Playing" /\ ship.respawnMs = respawnDelayMs

\* the last life was lost
C24_Witness == shipWasStruck /\ ev.pre.lives = 1 /\ mode = "Menu"

\* C25: lives does not decrease in a Playing tick in whose collision step the
\* ship is respawning or invincible, does not decrease in a menu, blackout or
\* Versus tick, and decreases by at most 1 in any tick.
C25_LivesGuarded ==
  /\ (ev.kind = "playing"
        /\ (ev.atCollision.respawnMs > 0 \/ ev.atCollision.invincibleMs > 0))
       => ship.lives >= ev.pre.lives
  /\ ev.kind \in {"menu", "blackout", "versus"} => ship.lives >= ev.pre.lives
  /\ ship.lives >= ev.pre.lives - 1

\* an invincible ship lies inside a live asteroid and keeps its lives
C25_Witness ==
  /\ ev.kind = "playing"
  /\ ev.atCollision.respawnMs <= 0
  /\ ev.atCollision.invincibleMs > 0
  /\ \E i \in 1..Len(asteroids) : shipHitsAsteroid(ev.atCollision, asteroids[i])
  /\ ship.lives = ev.pre.lives

\* the ship stayed where the last tick found it, with the same grace timer
shipLeftInPlace ==
  /\ ship.x = ev.pre.ship.x
  /\ ship.y = ev.pre.ship.y
  /\ ship.invincibleMs = ev.pre.ship.invincibleMs

\* C26: a Playing tick that starts with respawnMs > 0 counts the timer down;
\* when it reaches 0 and a live asteroid is within the safety radius of the
\* centre, respawnMs is set to 50 and position and invincibleMs are left as
\* they were, so that the test is made again 50 ms later; when the centre is
\* clear the ship becomes active: respawnMs = 0, at the centre, invincibleMs
\* = 2000.  The ship leaves the respawning state in no other way.
C26_RespawnRetry ==
  (ev.kind = "playing" /\ ev.pre.ship.respawnMs > 0) =>
    IF ev.pre.ship.respawnMs - dt > 0
    THEN ship.respawnMs = ev.pre.ship.respawnMs - dt /\ shipLeftInPlace
    ELSE IF clearOfAsteroids(centerX, centerY)
    THEN /\ ship.respawnMs = 0
         /\ ship.x = centerX
         /\ ship.y = centerY
         /\ ship.invincibleMs = graceMs
    ELSE ship.respawnMs = respawnRetryMs /\ shipLeftInPlace

\* a respawn put off by 50 ms was made by the next test, which found the
\* centre clear
C26_Witness ==
  /\ ev.kind = "playing"
  /\ ev.pre.ship.respawnMs = respawnRetryMs
  /\ ship.respawnMs = 0
  /\ ship.x = centerX
  /\ ship.invincibleMs = graceMs

\* the last tick was a Playing tick that found the ship respawning
tickFoundShipRespawning == ev.kind = "playing" /\ ev.pre.ship.respawnMs > 0

\* the tick left velocity and facing as they were, the thrust off, and made
\* no bullet
respawningShipInert ==
  /\ ship.dx = ev.pre.ship.dx
  /\ ship.dy = ev.pre.ship.dy
  /\ ship.angle = ev.pre.ship.angle
  /\ ~ship.isBoosting
  /\ ev.afterFire.bullets = ev.pre.ship.bullets
  /\ ship.bullets = <<>>

\* C27 as stated: a Playing tick that starts with respawnMs > 0 leaves the
\* ship's position, velocity and facing unchanged, sets isBoosting to false
\* and creates no bullet, whatever the stick and fire inputs are.
C27_AsStated ==
  tickFoundShipRespawning =>
    /\ respawningShipInert
    /\ ship.x = ev.pre.ship.x
    /\ ship.y = ev.pre.ship.y

\* C27: a Playing tick that starts with respawnMs > 0 leaves the ship's
\* velocity and facing unchanged, sets isBoosting to false and creates no
\* bullet, whatever the inputs are; its movement step leaves the position
\* unchanged, and the position changes only in the tick that completes the
\* respawn, which puts the ship at the world centre.
C27_FrozenWhileRespawning ==
  tickFoundShipRespawning =>
    /\ respawningShipInert
    /\ ev.afterFire.x = ev.pre.ship.x
    /\ ev.afterFire.y = ev.pre.ship.y
    /\ IF ship.respawnMs = 0
       THEN ship.x = centerX /\ ship.y = centerY
       ELSE ship.x = ev.pre.ship.x /\ ship.y = ev.pre.ship.y

\* stick pushed and fire held in the tick that completed the respawn of a
\* ship destroyed away from the centre
C27_Witness ==
  /\ tickFoundShipRespawning
  /\ ev.pad.stick.mag > 75
  /\ ev.pad.shooting
  /\ ship.respawnMs = 0
  /\ ship.x # ev.pre.ship.x

\* the bullets the firing step of the last tick added to the ship's
bulletsCreated == Len(ev.afterFire.bullets) - Len(ev.pre.ship.bullets)

\* C28: at the end of every Playing tick the ship owns at most
\* maxActiveBullets = 10 bullets; a tick creates at most one bullet, which it
\* appends to the ones in flight; when that makes 11, the oldest bullet (index
\* 0) is expired in the firing step and gone by the end of the tick, and the
\* new bullet is kept (unless it hits an asteroid or the ship is destroyed in
\* that tick).
C28_BulletCap ==
  ev.kind = "playing" =>
    /\ Len(ship.bullets) <= maxActiveBullets
    /\ bulletsCreated \in {0, 1}
    /\ SubSeq(ev.afterFire.bullets, 1, Len(ev.pre.ship.bullets)) =
         [i \in 1..Len(ev.pre.ship.bullets) |->
            IF i = 1 /\ Len(ev.afterFire.bullets) > maxActiveBullets
            THEN [ev.pre.ship.bullets[i] EXCEPT !.ttlMs = 0]
            ELSE ev.pre.ship.bullets[i]]
    /\ bulletsCreated = 1 =>
         ev.afterFire.bullets[Len(ev.afterFire.bullets)].ttlMs = bulletTtlMs
    /\ (bulletsCreated = 1 /\ ev.hits = <<>> /\ ~ev.died /\ dt < bulletTtlMs) =>
         /\ ship.bullets # <<>>
         /\ ship.bullets[Len(ship.bullets)].ttlMs = bulletTtlMs - dt

\* an 11th bullet was created: the oldest is gone, the new one is there
C28_Witness ==
  /\ ev.kind = "playing"
  /\ Len(ev.pre.ship.bullets) = maxActiveBullets
  /\ bulletsCreated = 1
  /\ ev.afterFire.bullets[1].ttlMs = 0
  /\ Len(ship.bullets) = maxActiveBullets
  /\ ship.bullets[Len(ship.bullets)].ttlMs = bulletTtlMs - dt

\* 10 x size of the asteroid of every hit of the last tick, and of every
\* asteroid hit in it
pointsPerHit == [k \in 1..Len(ev.hits) |-> (ev.asts[ev.hits[k][3]].size \div U) * 10]
pointsPerAsteroid ==
  LET struck == {ev.hits[k][3] : k \in 1..Len(ev.hits)}
      order == SelectSeq([i \in 1..Len(ev.asts) |-> i], LAMBDA i : i \in struck)
  IN [k \in 1..Len(order) |-> (ev.asts[order[k]].size \div U) * 10]

\* C29 as stated: a Playing tick adds to the score exactly 10 x size for each
\* asteroid destroyed in it (70, 40, 20), and the score changes at no other
\* time while Playing.
C29_AsStated ==
  /\ ev.kind = "playing" => ship.score = ev.pre.score + SumSeq(pointsPerAsteroid)
  /\ ev.kind = "blackout" => ship.score = ev.pre.score

\* C29: a Playing tick adds to the score 10 x size of the asteroid hit for
\* each bullet that hits one (70, 40, 20), which counts a Big or Medium
\* asteroid once per bullet that hits it in that tick; the score changes at
\* no other time while Playing.
C29_ScorePerHit ==
  /\ ev.kind = "playing" =>
       /\ ship.score = ev.pre.score + SumSeq(pointsPerHit)
       /\ \A k \in 1..Len(pointsPerHit) : pointsPerHit[k] \in {70, 40, 20}
  /\ ev.kind = "blackout" => ship.score = ev.pre.score

\* one bullet destroyed a Big asteroid: 70 points and two children
C29_Witness ==
  /\ ev.kind = "playing"
  /\ Len(ev.hits) = 1
  /\ ev.asts[ev.hits[1][3]].size = SizeBig
  /\ ship.score = ev.pre.score + 70
  /\ ev.kids = 2

\* the asteroids of the pre-tick field that a bullet was matched with in the
\* last tick
asteroidsStruck == {ev.hits[k][3] : k \in 1..Len(ev.hits)}

\* the last tick matched a bullet with a Small asteroid
smallAsteroidStruck == \E i \in asteroidsStruck : ev.asts[i].size = SizeSmall

\* C30: with explosionTtlMs = 0 no asteroid of any state carries a
\* timeUntilDead value, and after a Playing or Versus tick that did not
\* reseed the field every asteroid a bullet was matched with, the Small ones
\* included, is gone: the field is the untouched asteroids plus the children
\* of the splits.
C30_NoDecayingAsteroid ==
  /\ \A i \in 1..Len(asteroids) : ~asteroids[i].dying
  /\ (ev.kind \in {"playing", "versus"} /\ ~transitionExpired) =>
        Len(asteroids) = Len(ev.asts) - Cardinality(asteroidsStruck) + ev.kids

C30_Witness ==
  /\ ev.kind = "playing"
  /\ smallAsteroidStruck
  /\ ev.kids = 0
  /\ Len(asteroids) = Len(ev.asts) - 1

----------------------------------------------------------------------------
(* Seeding, Versus resets and the remaining game rules *)

\* the last tick seeded the field: the menu tick that entered Playing or
\* Versus, or the tick in which a level transition expired
seededThisTick == (ev.kind = "menu" /\ mode # "Menu") \/ transitionExpired

\* C31: after every seeding of level L the field is one live asteroid per
\* entry of baseAsteroidSizes, of that entry's size, followed by exactly
\* 2 * (L - 1) Big asteroids, and the template is the one the tick found.
C31_SeededField ==
  seededThisTick =>
    /\ freshSeed
    /\ level = (IF ev.kind = "menu" THEN 1 ELSE ev.pre.level + 1)
    /\ baseAsteroidSizes = ev.pre.base
    /\ Len(baseAsteroidSizes) > 0

\* a reseed for level 2: the template and two extra Big asteroids
C31_Witness ==
  /\ transitionExpired
  /\ level = 2
  /\ Len(asteroids) = Len(baseAsteroidSizes) + 2
  /\ asteroids[Len(asteroids)].size = SizeBig
  /\ asteroids[Len(asteroids) - 1].size = SizeBig

\* asteroid a is outside the exclusion radius around the point (px, py)
outsideExclusion(a, px, py) ==
  Sq(a.x - px) + Sq(a.y - py) > Sq(shipSize * 8 + a.size)

\* where ships are put when a level starts: the world centre in Playing, the
\* two players' spawn points in Versus
spawnPointsInUse ==
  IF mode = "Versus"
  THEN {<<spawnX("Blue"), WorldH \div 2>>, <<spawnX("Red"), WorldH \div 2>>}
  ELSE {<<centerX, centerY>>}

\* C32 as stated: every seeded asteroid is outside the exclusion radius of
\* every spawn point in use.
C32_AsStated ==
  seededThisTick =>
    \A i \in 1..Len(asteroids) : \A p \in spawnPointsInUse :
       outsideExclusion(asteroids[i], p[1], p[2])

\* C32: every seeded asteroid, a fallback placement included, is outside the
\* exclusion radius of the world centre, in Playing and in Versus; in Playing
\* the centre is the spawn point.
C32_SeedsClearOfCentre ==
  seededThisTick =>
    \A i \in 1..Len(asteroids) : outsideExclusion(asteroids[i], centerX, centerY)

\* a single-player seeding that used the fallback placement
C32_Witness ==
  /\ seededThisTick
  /\ mode = "Playing"
  /\ \E i \in 1..Len(asteroids) :
        /\ asteroids[i].x = centerX + shipSize * 8 + asteroids[i].size * 2
        /\ asteroids[i].y = centerY

\* a Versus tick ran the level-transition countdown down to 0
versusTransitionExpired == ev.kind = "versus" /\ transitionExpired

\* player i is one Large fragment at rest on its spawn point, with the grace
\* timer and no bullets
freshFleet(i) ==
  /\ Len(players[i].ships) = 1
  /\ players[i].ships[1].size = ShipLarge
  /\ players[i].ships[1].x = (IF i = 1 THEN WorldW \div 4 ELSE (WorldW * 3) \div 4)
  /\ players[i].ships[1].y = WorldH \div 2
  /\ players[i].ships[1].dx = 0
  /\ players[i].ships[1].dy = 0
  /\ players[i].ships[1].invincibleMs = graceMs
  /\ players[i].bullets = <<>>

\* C33: the Versus tick whose countdown reaches 0 adds 1 to level, reseeds
\* the field and leaves every player that had a fragment with one Large
\* fragment at its spawn point, at rest, with 2000 ms of grace and no
\* bullets; the score is the one the tick found (a countdown that was
\* already running means an empty field, so nothing is earned in that tick).
C33_VersusLevelReset ==
  versusTransitionExpired =>
    /\ level = ev.pre.level + 1
    /\ freshSeed
    /\ \A i \in 1..Len(players) :
          ev.pre.frags[i] >= 1 =>
            /\ freshFleet(i)
            /\ ev.pre.lt > 0 => players[i].score = ev.pre.scores[i]

\* a reset of a player that had been split and had scored when the
\* countdown ran out
C33_Witness ==
  /\ versusTransitionExpired
  /\ ev.pre.lt > 0
  /\ \E i \in 1..Len(players) :
        /\ ev.pre.frags[i] >= 2
        /\ players[i].score > 0
        /\ freshFleet(i)

\* the splitShipFragment calls of the ship-ship step of the last tick: two
\* per collision, the second player's fragment first
crashSplits ==
  SubSeq(ev.splits, Len(ev.splits) - 2 * ev.rams + 1, Len(ev.splits))

\* the two fleets as the ship-ship step of the last tick found them
fleetsAtShipStep ==
  IF ev.rams = 0 THEN <<players[1].ships, players[2].ships>>
  ELSE <<crashSplits[2][1], crashSplits[1][1]>>

\* the fragments of fleet `ships` that the tick left in place
stillPresent(f, ships) == \E k \in 1..Len(ships) : ships[k] = f

\* fragments f and g, neither invincible, are within the sum of their sizes
\* (wrapped distance)
vulnerableAndTouching(f, g) ==
  /\ f.invincibleMs <= 0
  /\ g.invincibleMs <= 0
  /\ Sq(wrapDelta(f.x - g.x, WorldW)) + Sq(wrapDelta(f.y - g.y, WorldH))
       <= Sq(f.size + g.size)

\* the pairs of opposing fragments that met the collision test when the
\* ship-ship step of the last tick began
pairsInContact ==
  { <<a, b>> \in (1..Len(fleetsAtShipStep[1])) \X (1..Len(fleetsAtShipStep[2])) :
      vulnerableAndTouching(fleetsAtShipStep[1][a], fleetsAtShipStep[2][b]) }

\* C34 as stated: of every pair of opposing fragments, neither invincible,
\* within the sum of their sizes, both are destroyed in that tick.
C34_AsStated ==
  (ev.kind = "versus" /\ Len(players) = 2) =>
     \A pr \in pairsInContact :
        /\ ~stillPresent(fleetsAtShipStep[1][pr[1]], players[1].ships)
        /\ ~stillPresent(fleetsAtShipStep[2][pr[2]], players[2].ships)

\* C34: every ship-ship collision of a Versus tick destroys one fragment of
\* each player (split or removed), the two of them neither invincible and
\* within the sum of their sizes when they collide; of every pair that met
\* the test when the step began at least one fragment is destroyed, and no
\* such pair is left at the end of the tick.  A fragment in contact with two
\* opposing fragments takes only the first of them with it.
C34_CollisionsSymmetric ==
  (ev.kind = "versus" /\ Len(players) = 2) =>
     /\ \A k \in 1..ev.rams :
           LET sb == crashSplits[2 * k - 1]
               sa == crashSplits[2 * k]
           IN /\ vulnerableAndTouching(sa[1][sa[2]], sb[1][sb[2]])
              /\ ~stillPresent(sa[1][sa[2]], players[1].ships)
              /\ ~stillPresent(sb[1][sb[2]], players[2].ships)
     /\ \A pr \in pairsInContact :
           \/ ~stillPresent(fleetsAtShipStep[1][pr[1]], players[1].ships)
           \/ ~stillPresent(fleetsAtShipStep[2][pr[2]], players[2].ships)
     /\ \A a \in 1..Len(players[1].ships), b \in 1..Len(players[2].ships) :
           ~vulnerableAndTouching(players[1].ships[a], players[2].ships[b])

\* a collision in which both fragments were split or removed
C34_Witness ==
  /\ ev.kind = "versus"
  /\ ev.rams = 1
  /\ pairsInContact # {}
  /\ \A pr \in pairsInContact :
        /\ ~stillPresent(fleetsAtShipStep[1][pr[1]], players[1].ships)
        /\ ~stillPresent(fleetsAtShipStep[2][pr[2]], players[2].ships)

\* the last tick was a Playing tick that took a life
lifeLost == ev.kind = "playing" /\ ev.died

\* C35 as stated: any two ticks that take a life are at least 4000 ms of
\* gameplay time apart.
C35_AsStated ==
  (lifeLost /\ probe.gapLoss >= 0) => probe.gapLoss >= respawnDelayMs + graceMs

\* C35: two ticks of one game that take a life are at least 4000 ms of
\* gameplay time apart (a respawn countdown, then an invincibility
\* countdown), and the first life of a game is taken no earlier than
\* 2000 ms after its start.  The last loss of one game and the first of the
\* next can be 2000 ms apart.
C35_LossesSpacedInGame ==
  lifeLost =>
    /\ ev.pre.lives < startLives => probe.gapLoss >= respawnDelayMs + graceMs
    /\ probe.gapStart >= graceMs

\* a second life taken exactly 4000 ms after the first
C35_Witness ==
  /\ lifeLost
  /\ ev.pre.lives < startLives
  /\ probe.gapLoss = respawnDelayMs + graceMs
  /\ probe.gapLoss < LivesClockCap

\* C36: whenever mode is Menu, levelTransitionMs is 0 (a game or round never
\* ends in the tick that starts a transition nor while one runs), so a game
\* that startNewGame starts finds no countdown running.
C36_NoCountdownInMenu ==
  /\ mode = "Menu" => levelTransitionMs = 0
  /\ (ev.kind = "menu" /\ mode = "Playing") => levelTransitionMs = 0
  /\ (ev.kind \in {"playing", "versus"} /\ mode = "Menu") =>
        ~transitionStarted /\ ev.pre.lt <= 0

\* a Versus round has ended, no countdown running, and the menu starts a
\* single-player game from there
C36_Witness ==
  /\ mode = "Playing"
  /\ ev.kind = "menu"
  /\ ev.pre.mode = "Menu"
  /\ Len(ev.pre.players) = 2
  /\ levelTransitionMs = 0

\* C37: a tick of the single-player level transition, the one that seeds the
\* next level included, leaves score, lives and the bullet list as they
\* were: the bullets in flight are neither moved nor aged nor cleared.  They
\* are moved and can hit again in the first tick of the next level.
C37_BlackoutKeepsBullets ==
  ev.kind = "blackout" =>
    /\ ship.score = ev.pre.score
    /\ ship.lives = ev.pre.lives
    /\ ship.bullets = ev.pre.ship.bullets

\* the first tick of level 2: the bullet that was in flight through the
\* blackout hits an asteroid of the new field
C37_Witness ==
  /\ ev.kind = "playing"
  /\ level = 2
  /\ ev.pre.lt = 0
  /\ ev.pre.ship.bullets = << [Bullet(centerX, 87 * U, 0, bulletStep(dt))
                                 EXCEPT !.ttlMs = bulletTtlMs - dt] >>
  /\ \E k \in 1..Len(ev.hits) : ev.hits[k][2] = 1
  /\ ship.score > ev.pre.score

\* C38: a Versus tick that leaves the countdown running never ends the
\* round, and the tick whose countdown reaches 0 gives every player, one
\* with no fragment left included, one Large fragment at its spawn point:
\* the round goes on with both players.
C38_EliminationUndone ==
  /\ (ev.kind = "versus" /\ levelTransitionMs > 0) => mode = "Versus"
  /\ versusTransitionExpired =>
        /\ mode = "Versus"
        /\ \A i \in 1..Len(players) : freshFleet(i)

\* a player that had lost its last fragment while the countdown ran is back
C38_Witness ==
  /\ versusTransitionExpired
  /\ ev.pre.lt > 0
  /\ mode = "Versus"
  /\ \E i \in 1..Len(players) :
        /\ ev.pre.frags[i] = 0
        /\ ev.pre.frags[3 - i] > 0
        /\ freshFleet(i)

\* the last tick was a Versus tick that found both players without a
\* fragment and without a bullet in flight, an asteroid on the field and no
\* countdown running
foundDoubleKnockOut ==
  /\ ev.kind = "versus"
  /\ Len(ev.pre.players) = 2
  /\ \A i \in 1..2 : ev.pre.frags[i] = 0 /\ ev.pre.players[i].bullets = <<>>
  /\ Len(ev.asts) >= 1
  /\ ev.pre.lt = 0

\* C39: a Versus tick that finds both players without fragments and without
\* bullets, a field that is not empty and no countdown running leaves all
\* of that as it is, whatever the pads read: mode, level and scores are
\* unchanged, nobody has a fragment or a bullet, the field is not empty and
\* no countdown starts.  The next tick finds the same, so the round stays in
\* Versus for ever.
C39_DoubleKnockOutAbsorbing ==
  foundDoubleKnockOut =>
    /\ mode = "Versus"
    /\ level = ev.pre.level
    /\ levelTransitionMs = 0
    /\ Len(asteroids) = Len(ev.asts)
    /\ \A i \in 1..2 :
          /\ players[i].score = ev.pre.scores[i]
          /\ players[i].ships = <<>>
          /\ players[i].bullets = <<>>

\* both players held fire down in a tick after the double knock-out
C39_Witness ==
  /\ foundDoubleKnockOut
  /\ ev.pad[1].shooting
  /\ ev.pad[2].shooting
  /\ mode = "Versus"

\* the health a fleet stands for: a Large fragment counts 4, a Medium one 2,
\* a Small one 1
fleetWeight(ships) ==
  SumSeq([k \in 1..Len(ships) |->
            IF ships[k].size = ShipLarge THEN 4
            ELSE IF ships[k].size = ShipMed THEN 2 ELSE 1])

\* C40: every player has at most 4 fragments, of a weighted total of at most
\* 4, and a Versus tick in which no level transition expires never raises a
\* player's weighted total; startVersus and the expiry of a level transition
\* set it to 4 (one Large fragment).
C40_FragmentHealthBounded ==
  \A i \in 1..Len(players) :
     /\ Len(players[i].ships) <= 4
     /\ fleetWeight(players[i].ships) <= 4
     /\ (ev.kind = "versus" /\ ~transitionExpired) =>
           fleetWeight(players[i].ships) <= fleetWeight(ev.pre.players[i].ships)
     /\ (versusTransitionExpired \/ (ev.kind = "menu" /\ mode = "Versus")) =>
           fleetWeight(players[i].ships) = 4 /\ Len(players[i].ships) = 1

\* a Medium fragment was split into two Small ones: the player's weighted
\* total stays what it was
C40_Witness ==
  /\ ev.kind = "versus"
  /\ ~transitionExpired
  /\ \E i \in 1..Len(players) :
        /\ Len(players[i].ships) > Len(ev.pre.players[i].ships)
        /\ \E k \in 1..Len(players[i].ships) : players[i].ships[k].size = ShipSmall
        /\ fleetWeight(players[i].ships) = fleetWeight(ev.pre.players[i].ships)

====
